---- MODULE Spec2Model ----
(***************************************************************************)
(* Model of the jiki orchestration engine (jiki/orchestrator.py and the    *)
(* helpers of jiki/utils.py): one JikiOrchestrator instance processing     *)
(* user turns, streaming tokens from the model, intercepting tool-call     *)
(* blocks, validating and dispatching them, splicing the results into the  *)
(* message context and trimming the context at the start of a turn.        *)
(*                                                                         *)
(* Text is a sequence of symbols.  The directive delimiters are symbols:   *)
(*   "CO"/"CC"  <mcp_tool_call> / </mcp_tool_call>                         *)
(*   "RO"/"RC"  <mcp_tool_result> / </mcp_tool_result>                     *)
(*   "AO"/"AC"  <mcp_available_tools> / </mcp_available_tools>             *)
(*   "TO"/"TC"  <Assistant_Thought> / </Assistant_Thought>                 *)
(*   "nl"       a newline, "sp" a blank                                    *)
(* every other symbol is a chunk of ordinary text.  A token of the model   *)
(* stream is a non-empty sequence of symbols; the buffer is a sequence of  *)
(* tokens and "".join(buffer) is their concatenation.                      *)
(***************************************************************************)
EXTENDS Integers, Sequences, FiniteSets, TLC

\* ------------------------------------------------------------------------
\* Bounds of the model
\* ------------------------------------------------------------------------
\* number of process_user_input calls in a behaviour
MaxTurns == 2
\* number of tool-call blocks the model emits in a behaviour
MaxCalls == 2
\* number of chunks of a buffer given to the tag scanner
MaxLen == 4
\* number of chunks of a text given to the payload parser
MaxChunks == 2
\* number of resume calls
MaxResumes == 1
\* number of execute_tool_call invocations made on a client
MaxInvocations == 2

\* ------------------------------------------------------------------------
\* Generic sequence helpers
\* ------------------------------------------------------------------------
RECURSIVE Flatten(_)
\* "".join(tokens)
Flatten(toks) ==
    IF toks = <<>> THEN <<>> ELSE Head(toks) \o Flatten(Tail(toks))

\* the smallest element of a non-empty set of integers
MinOf(S) == CHOOSE x \in S : \A y \in S : x <= y

\* the largest element of a non-empty set of integers
MaxOf(S) == CHOOSE x \in S : \A y \in S : y <= x

\* positions of text where the symbol sym stands
Positions(text, sym) == {i \in 1..Len(text) : text[i] = sym}

\* needle occurs in hay as a contiguous run (Python: needle in hay)
Contains(hay, needle) ==
    \E i \in 0..(Len(hay) - Len(needle)) :
        \A j \in 1..Len(needle) : hay[i + j] = needle[j]

\* ------------------------------------------------------------------------
\* Tag scanner: regex "(open)(.*?)(close)" with DOTALL, re.search
\* ------------------------------------------------------------------------
None == [found |-> FALSE, content |-> <<>>]

\* the greedy pattern open(.*)close: the first open that has a close after
\* it, and the last close of the text
BlockMatchGreedy(text, open, close) ==
    LET starts == {i \in Positions(text, open) :
                       \E j \in Positions(text, close) : j > i}
    IN  IF starts = {} THEN [found |-> FALSE, from |-> 0, to |-> 0]
        ELSE [found |-> TRUE, from |-> MinOf(starts),
              to |-> MaxOf(Positions(text, close))]

\* leftmost match of open(.*?)close: the first open that has a close after
\* it, and the first close after that open
BlockMatch(text, open, close) ==
    LET starts == {i \in Positions(text, open) :
                       \E j \in Positions(text, close) : j > i}
    IN  IF starts = {} THEN [found |-> FALSE, from |-> 0, to |-> 0]
        ELSE LET i == MinOf(starts)
                 j == MinOf({k \in Positions(text, close) : k > i})
             IN  [found |-> TRUE, from |-> i, to |-> j]

extract_tool_call_if_present(text) ==
    LET m == BlockMatch(text, "CO", "CC")
    IN  IF m.found
        THEN [found |-> TRUE, content |-> SubSeq(text, m.from + 1, m.to - 1)]
        ELSE None

IsSpace(s) == s \in {"nl", "sp"}

RECURSIVE LStrip(_)
LStrip(text) ==
    IF text # <<>> /\ IsSpace(Head(text)) THEN LStrip(Tail(text)) ELSE text

RECURSIVE RStrip(_)
RStrip(text) ==
    IF text # <<>> /\ IsSpace(text[Len(text)])
    THEN RStrip(SubSeq(text, 1, Len(text) - 1)) ELSE text

\* str.strip()
Strip(text) == RStrip(LStrip(text))

extract_thought_if_present(text) ==
    LET m == BlockMatch(text, "TO", "TC")
    IN  IF m.found
        THEN [found |-> TRUE,
              content |-> Strip(SubSeq(text, m.from + 1, m.to - 1))]
        ELSE None

\* Python truthiness of an Optional[str]: None and "" are both false
Truthy(opt) == opt.found /\ opt.content # <<>>

\* ------------------------------------------------------------------------
\* Output cleaning
\* ------------------------------------------------------------------------
RECURSIVE Fuse(_)
\* the text as the string of characters a pattern runs over: "COa" and
\* "COb" are the two halves of the opening tool-call delimiter, and standing
\* next to each other they are that delimiter
Fuse(text) ==
    IF Len(text) < 2 THEN text
    ELSE IF text[1] = "COa" /\ text[2] = "COb"
         THEN <<"CO">> \o Fuse(SubSeq(text, 3, Len(text)))
         ELSE <<Head(text)>> \o Fuse(Tail(text))

RECURSIVE RemoveMatches(_, _, _)
\* the matches of open.*?close, left to right, cut out of a fused text
RemoveMatches(text, open, close) ==
    LET m == BlockMatch(text, open, close)
    IN  IF ~m.found THEN text
        ELSE SubSeq(text, 1, m.from - 1)
                 \o RemoveMatches(SubSeq(text, m.to + 1, Len(text)), open, close)

\* pattern.sub("", text) for the pattern open.*?close
RemoveBlocks(text, open, close) == RemoveMatches(Fuse(text), open, close)

RECURSIVE CollapseNewlines(_)
\* re.sub(r"\n{3,}", "\n\n", text)
CollapseNewlines(text) ==
    IF Len(text) < 3 THEN text
    ELSE IF text[1] = "nl" /\ text[2] = "nl" /\ text[3] = "nl"
         THEN CollapseNewlines(Tail(text))
         ELSE <<Head(text)>> \o CollapseNewlines(Tail(text))

clean_output(text) ==
    LET r1 == RemoveBlocks(text, "CO", "CC")
        r2 == RemoveBlocks(r1, "RO", "RC")
        r3 == RemoveBlocks(r2, "AO", "AC")
        r4 == RemoveBlocks(r3, "TO", "TC")
    IN  CollapseNewlines(Strip(r4))

\* ------------------------------------------------------------------------
\* Tool-call payloads
\* ------------------------------------------------------------------------
\* A payload symbol is a chunk of text found between the delimiters of a
\* tool-call block.  PayloadInfo gives what the text is:
\*   form  "json"    well-formed JSON
\*         "quoted"  a JSON object written with single quotes or a trailing
\*                   comma: json.loads rejects it, the repair step fixes it
\*         "broken"  has a '{' before a '}' but stays unparsable after repair
\*         "prose"   no brace pair at all
\*   braces   the text has a '{' followed later by a '}'
\*   val      the value json.loads yields (for "json"; for "quoted" after
\*            the repair)
\* A JSON value is [is_dict, has_name, tool_name, args_kind, args]: args_kind
\* tells whether the "arguments" field is absent, an object ("dict"), an
\* array or a scalar; args is the object's items in order, each [k, t] with
\* t the Python type of the value.
EmptyDict ==
    [is_dict |-> TRUE, has_name |-> FALSE, tool_name |-> "",
     args_kind |-> "absent", args |-> <<>>]

NotADict ==
    [is_dict |-> FALSE, has_name |-> FALSE, tool_name |-> "",
     args_kind |-> "absent", args |-> <<>>]

Call(name, kind, args) ==
    [is_dict |-> TRUE, has_name |-> TRUE, tool_name |-> name,
     args_kind |-> kind, args |-> args]

Arg(k, t) == [k |-> k, t |-> t]

PayloadInfo ==
    [p_add      |-> [form |-> "json", braces |-> TRUE,
                     val |-> Call("add", "dict", <<Arg("a", "int"), Arg("b", "int")>>)],
     p_add_q    |-> [form |-> "quoted", braces |-> TRUE,
                     val |-> Call("add", "dict", <<Arg("a", "int"), Arg("b", "int")>>)],
     p_search   |-> [form |-> "json", braces |-> TRUE,
                     val |-> Call("search", "dict", <<Arg("query", "str")>>)],
     p_echo_arr |-> [form |-> "json", braces |-> TRUE,
                     val |-> Call("echo", "array", <<>>)],
     p_echo_none |-> [form |-> "json", braces |-> TRUE,
                     val |-> Call("echo", "dict", <<>>)],
     p_limit_str |-> [form |-> "json", braces |-> TRUE,
                     val |-> Call("search", "dict",
                                  <<Arg("query", "str"), Arg("limit", "str")>>)],
     p_unknown  |-> [form |-> "json", braces |-> TRUE,
                     val |-> Call("unknown", "dict", <<Arg("a", "int"), Arg("b", "int")>>)],
     p_missing  |-> [form |-> "json", braces |-> TRUE,
                     val |-> Call("add", "dict", <<Arg("a", "int")>>)],
     p_mistyped |-> [form |-> "json", braces |-> TRUE,
                     val |-> Call("add", "dict", <<Arg("a", "str"), Arg("b", "int")>>)],
     p_noname   |-> [form |-> "json", braces |-> TRUE,
                     val |-> [EmptyDict EXCEPT !.args_kind = "dict",
                                               !.args = <<Arg("a", "int"), Arg("b", "int")>>]],
     p_emptyname |-> [form |-> "json", braces |-> TRUE,
                     val |-> Call("", "dict", <<>>)],
     p_array    |-> [form |-> "json", braces |-> FALSE, val |-> NotADict],
     p_broken   |-> [form |-> "broken", braces |-> TRUE, val |-> EmptyDict],
     p_prose    |-> [form |-> "prose", braces |-> FALSE, val |-> EmptyDict]]

PayloadIds == DOMAIN PayloadInfo

IsPayload(sym) == sym \in PayloadIds

\* ------------------------------------------------------------------------
\* repair_json
\* ------------------------------------------------------------------------
NoError == "None"

\* str(e) of the json.JSONDecodeError of the first and of the last attempt
DirectError == "JSONDecodeError(direct)"
RepairError == "JSONDecodeError(repaired)"

\* str(e2) of the attempt on the brace-delimited substring
ExtractError == "JSONDecodeError(extracted)"

\* besides the payload symbols a text may hold a lone '{' ("lb") and a lone
\* '}' ("rb"); "lb", blanks, "rb" is the text of the empty object
IsEmptyObject(t) ==
    /\ Len(t) >= 2
    /\ t[1] = "lb"
    /\ t[Len(t)] = "rb"
    /\ \A i \in 2..(Len(t) - 1) : IsSpace(t[i])

\* json.loads(text) succeeds: one well-formed JSON text, blanks around it
JsonLoads(text) ==
    LET t == Strip(text)
    IN  IF Len(t) = 1 /\ IsPayload(t[1]) /\ PayloadInfo[t[1]].form = "json"
        THEN [ok |-> TRUE, val |-> PayloadInfo[t[1]].val]
        ELSE IF IsEmptyObject(t) THEN [ok |-> TRUE, val |-> EmptyDict]
        ELSE [ok |-> FALSE, val |-> EmptyDict]

\* the quote, trailing-comma and bare-key substitutions, then json.loads
RepairLoads(text) ==
    IF Len(text) = 1 /\ IsPayload(text[1])
         /\ PayloadInfo[text[1]].form \in {"json", "quoted"}
    THEN [ok |-> TRUE, val |-> PayloadInfo[text[1]].val]
    ELSE IF IsEmptyObject(text) THEN [ok |-> TRUE, val |-> EmptyDict]
    ELSE [ok |-> FALSE, val |-> EmptyDict]

\* chunks of text holding a '{', chunks holding a '}': a payload chunk with
\* braces starts with its '{' and ends with its '}'
OpenPositions(text) ==
    {i \in 1..Len(text) :
        text[i] = "lb" \/ (IsPayload(text[i]) /\ PayloadInfo[text[i]].braces)}

ClosePositions(text) ==
    {i \in 1..Len(text) :
        text[i] = "rb" \/ (IsPayload(text[i]) /\ PayloadInfo[text[i]].braces)}

\* str.find('{') and str.rfind('}') as chunk positions, 0 for "not found"
\* (the code's -1)
Find(positions) == IF positions = {} THEN 0 ELSE MinOf(positions)

RFind(positions) == IF positions = {} THEN 0 ELSE MaxOf(positions)

\* repair_json trying the brace-delimited substring before the whole input
repair_json_extract_first(json_str) ==
    LET Repaired(extracted, repaired) ==
            IF extracted.ok
            THEN [tool_call |-> extracted.val, method |-> "extracted",
                  error |-> NoError]
            ELSE IF repaired.ok
            THEN [tool_call |-> repaired.val, method |-> "repaired",
                  error |-> DirectError]
            ELSE [tool_call |-> EmptyDict, method |-> "failed",
                  error |-> RepairError]
        Extracted(json_content) ==
            Repaired(JsonLoads(json_content), RepairLoads(json_content))
        Attempted(direct, json_start, json_end) ==
            IF json_start # 0 /\ json_end # 0 /\ json_end >= json_start
            THEN Extracted(SubSeq(json_str, json_start, json_end))
            ELSE IF direct.ok
            THEN [tool_call |-> direct.val, method |-> "direct", error |-> NoError]
            ELSE [tool_call |-> EmptyDict, method |-> "no_json_found",
                  error |-> DirectError]
    IN  Attempted(JsonLoads(json_str), Find(OpenPositions(json_str)),
                  RFind(ClosePositions(json_str)))

\* repair_json reporting on the repaired route the error of the attempt that
\* failed last, the one on the brace-delimited substring
repair_json_last_error(json_str) ==
    LET Repaired(extracted, repaired) ==
            IF extracted.ok
            THEN [tool_call |-> extracted.val, method |-> "extracted",
                  error |-> NoError]
            ELSE IF repaired.ok
            THEN [tool_call |-> repaired.val, method |-> "repaired",
                  error |-> ExtractError]
            ELSE [tool_call |-> EmptyDict, method |-> "failed",
                  error |-> RepairError]
        Extracted(json_content) ==
            Repaired(JsonLoads(json_content), RepairLoads(json_content))
        Attempted(direct, json_start, json_end) ==
            IF direct.ok
            THEN [tool_call |-> direct.val, method |-> "direct", error |-> NoError]
            ELSE IF json_start # 0 /\ json_end # 0 /\ json_end >= json_start
            THEN Extracted(SubSeq(json_str, json_start, json_end))
            ELSE [tool_call |-> EmptyDict, method |-> "no_json_found",
                  error |-> DirectError]
    IN  Attempted(JsonLoads(json_str), Find(OpenPositions(json_str)),
                  RFind(ClosePositions(json_str)))

\* repair_json reporting the first attempt's error on the extracted route
repair_json_keeps_error(json_str) ==
    LET Repaired(extracted, repaired) ==
            IF extracted.ok
            THEN [tool_call |-> extracted.val, method |-> "extracted",
                  error |-> DirectError]
            ELSE IF repaired.ok
            THEN [tool_call |-> repaired.val, method |-> "repaired",
                  error |-> DirectError]
            ELSE [tool_call |-> EmptyDict, method |-> "failed",
                  error |-> RepairError]
        Extracted(json_content) ==
            Repaired(JsonLoads(json_content), RepairLoads(json_content))
        Attempted(direct, json_start, json_end) ==
            IF direct.ok
            THEN [tool_call |-> direct.val, method |-> "direct", error |-> NoError]
            ELSE IF json_start # 0 /\ json_end # 0 /\ json_end >= json_start
            THEN Extracted(SubSeq(json_str, json_start, json_end))
            ELSE [tool_call |-> EmptyDict, method |-> "no_json_found",
                  error |-> DirectError]
    IN  Attempted(JsonLoads(json_str), Find(OpenPositions(json_str)),
                  RFind(ClosePositions(json_str)))

repair_json(json_str) ==
    LET Repaired(extracted, repaired) ==
            IF extracted.ok
            THEN [tool_call |-> extracted.val, method |-> "extracted",
                  error |-> NoError]
            ELSE IF repaired.ok
            THEN [tool_call |-> repaired.val, method |-> "repaired",
                  error |-> DirectError]
            ELSE [tool_call |-> EmptyDict, method |-> "failed",
                  error |-> RepairError]
        Extracted(json_content) ==
            Repaired(JsonLoads(json_content), RepairLoads(json_content))
        \* json_end > json_start: within one chunk the '{' comes first
        Attempted(direct, json_start, json_end) ==
            IF direct.ok
            THEN [tool_call |-> direct.val, method |-> "direct", error |-> NoError]
            ELSE IF json_start # 0 /\ json_end # 0 /\ json_end >= json_start
            THEN Extracted(SubSeq(json_str, json_start, json_end))
            ELSE [tool_call |-> EmptyDict, method |-> "no_json_found",
                  error |-> DirectError]
    IN  Attempted(JsonLoads(json_str), Find(OpenPositions(json_str)),
                  RFind(ClosePositions(json_str)))

\* ------------------------------------------------------------------------
\* Tool schemas (tools_config) and argument validation
\* ------------------------------------------------------------------------
Schema(name, args, has_required, required) ==
    [tool_name |-> name, arguments |-> args,
     has_required |-> has_required, required |-> required]

ArgSchema(k, type) == [k |-> k, type |-> type]

\* the sample configuration of the tests, and a tool declared through
\* Tool.to_dict(), which writes no "required" key
tools_config ==
    << Schema("add", <<ArgSchema("a", "integer"), ArgSchema("b", "integer")>>,
              TRUE, <<"a", "b">>),
       Schema("search", <<ArgSchema("query", "string"), ArgSchema("limit", "integer")>>,
              TRUE, <<"query">>),
       Schema("echo", <<ArgSchema("text", "string")>>, FALSE, <<>>) >>

\* the names of the configured tools
ConfiguredNames == {tools_config[i].tool_name : i \in 1..Len(tools_config)}

Keys(items) == {items[i].k : i \in 1..Len(items)}

\* isinstance(value, <the Python type the declared type is checked with>)
TypeOk(expected_type, t) ==
    CASE expected_type = "integer" -> t \in {"int", "bool"}
      [] expected_type = "number"  -> t \in {"int", "bool", "float"}
      [] expected_type = "string"  -> t = "str"
      [] expected_type = "boolean" -> t = "bool"
      [] OTHER -> TRUE

ExpectedType(expected_args, k) ==
    LET i == CHOOSE i \in 1..Len(expected_args) : expected_args[i].k = k
    IN  expected_args[i].type

RECURSIVE MissingArgs(_, _)
MissingArgs(arguments, required_args) ==
    IF required_args = <<>> THEN <<>>
    ELSE (IF Head(required_args) \in Keys(arguments) THEN <<>>
          ELSE <<Head(required_args)>>)
         \o MissingArgs(arguments, Tail(required_args))

RECURSIVE TypeMismatches(_, _)
TypeMismatches(arguments, expected_args) ==
    IF arguments = <<>> THEN <<>>
    ELSE LET a == Head(arguments)
         IN  (IF a.k \in Keys(expected_args)
                   /\ ~TypeOk(ExpectedType(expected_args, a.k), a.t)
              THEN <<[k |-> a.k, expected |-> ExpectedType(expected_args, a.k),
                      got |-> a.t]>>
              ELSE <<>>)
             \o TypeMismatches(Tail(arguments), expected_args)

\* validate_tool_arguments reporting only the first missing argument
validate_tool_arguments_first_missing(arguments, expected_args, required_args) ==
    [missing_args    |-> IF MissingArgs(arguments, required_args) = <<>> THEN <<>>
                         ELSE <<Head(MissingArgs(arguments, required_args))>>,
     type_mismatches |-> TypeMismatches(arguments, expected_args)]

validate_tool_arguments(arguments, expected_args, required_args) ==
    [missing_args    |-> MissingArgs(arguments, required_args),
     type_mismatches |-> TypeMismatches(arguments, expected_args)]

\* ------------------------------------------------------------------------
\* categorize_error: the name of the exception class is a sequence of
\* word fragments, "ConnectionError" is <<"Connection", "Error">>
\* ------------------------------------------------------------------------
categorize_error(error_type) ==
    IF Contains(error_type, <<"Connection", "Refused">>)
          \/ Contains(error_type, <<"Connection", "Error">>) THEN "CONNECTION"
    ELSE IF Contains(error_type, <<"Timeout">>) THEN "TIMEOUT"
    ELSE IF Contains(error_type, <<"Value", "Error">>) THEN "VALUE"
    ELSE IF Contains(error_type, <<"Key", "Error">>) THEN "KEY"
    ELSE IF Contains(error_type, <<"Type", "Error">>) THEN "TYPE"
    ELSE "GENERAL"

\* ------------------------------------------------------------------------
\* Inputs of the model
\* ------------------------------------------------------------------------
\* the texts the user types, turn after turn: the code never looks into
\* them, so one text per turn, all different
UserScript == <<"q1", "q2", "q3", "q4">>

\* texts the user may type at turn t
UserInputs(t) == {UserScript[t]}

\* values of max_tokens_ctx, scaled to the texts of the model; every caller
\* in the repository passes the same value in every turn (the default)
Budgets == {8, 40}

\* strings the tool executor may return
ToolResults == {"r1"}

\* classes of the exceptions the tool executor may raise
ExecutorErrors == {<<"Value", "Error">>}

\* payloads the model writes into a block split over two tokens
StreamPayloads ==
    {"p_add", "p_unknown", "p_missing", "p_mistyped", "p_prose"}

\* token streams the model may produce for one generation pass: an answer,
\* a thought and an answer, an opening delimiter never closed
AnswerStreams ==
    { << <<"txt">> >>,
      << <<"TO", "txt", "TC">>, <<"txt", "nl">> >>,
      << <<"txt", "CO">>, <<"txt">> >> }

\* a block split over two tokens and followed by a token that is never
\* read; a thought, then a whole block followed by text in one token; a
\* block with nothing between its delimiters, then a well-formed block
CallStreams ==
    { << <<"txt", "CO">>, <<p, "CC">>, <<"txt">> >> : p \in StreamPayloads }
    \cup { << <<"TO", "txt", "TC">>, <<"CO", "p_echo_arr", "CC", "txt">> >> }
    \cup { << <<"CO", "CC">>, <<"CO", "p_add", "CC">> >> }

Streams == AnswerStreams \cup CallStreams

\* what the model produces once a tool result is in its context: an answer,
\* a well-formed call or prose in a block
RetryStreams ==
    { << <<"txt", "CO">>, <<p, "CC">>, <<"txt">> >> : p \in {"p_add", "p_prose"} }

\* the streams the model may produce once n blocks have been intercepted
StreamsAfter(n) ==
    IF n >= MaxCalls THEN AnswerStreams
    ELSE IF n = 0 THEN Streams
    ELSE AnswerStreams \cup RetryStreams

\* the tokens a generator that has yielded the tokens of buffer may yield next
NextTokens(buffer, n) ==
    {s[Len(buffer) + 1] : s \in {x \in StreamsAfter(n) :
                                    /\ Len(x) > Len(buffer)
                                    /\ SubSeq(x, 1, Len(buffer)) = buffer}}

\* a generator that has yielded the tokens of buffer may be exhausted
MayEnd(buffer, n) == buffer \in StreamsAfter(n)

\* ------------------------------------------------------------------------
\* State
\* ------------------------------------------------------------------------
VARIABLES
    messages,              \* self._messages, the context
    last_tool_calls,       \* self._last_tool_calls
    conversation_history,  \* self.conversation_history
    tiktoken,              \* the tiktoken import succeeded
    pc,                    \* position of process_user_input
    turn,                  \* number of process_user_input calls so far
    user_input,            \* parameter of the call in progress
    max_tokens_ctx,        \* the budget the caller passes to every call
    output_buffer,         \* local of _generate_and_intercept
    thought_found,         \* local of _generate_and_intercept
    tool_call_found,       \* local of _generate_and_intercept
    pending,               \* executor call being awaited
    outcome,               \* how the last process_user_input call ended
    returned,              \* value the last call returned
    ncalls,                \* tool-call blocks intercepted so far
    executor_calls,        \* calls received by mcp_client.execute_tool_call
    trim_input,            \* the context the trimming loop started from
    probe,                 \* a utility function called on its own: the
                           \* function, its input and what it returned
    logger,                \* a TraceLogger was given to the constructor
    raw_conversation,      \* local of _generate_and_intercept
    events,                \* logger.events
    complete_traces,       \* logger.complete_traces
    saved,                 \* the snapshot the caller holds
    last_resume,           \* the last resume call and what it raised
    root,                  \* where the live context stands with respect
                           \* to the snapshot, and the resume calls made
    other,                 \* the call that is suspended while this one runs
    running,               \* which of the two calls is running
    shared,                \* the two calls are made on one orchestrator
    loop,                  \* generate_and_intercept of utils/streaming.py,
                           \* run on the same context, tokens and handler
    detailed,              \* the DetailedResponse objects the caller holds
    client                 \* a JikiClient and the execute_tool_call
                           \* invocations in flight on it

vars == <<messages, last_tool_calls, conversation_history, tiktoken, pc, turn,
          user_input, max_tokens_ctx, output_buffer, thought_found,
          tool_call_found, pending, outcome, returned, ncalls,
          executor_calls, trim_input, probe, logger, raw_conversation,
          events, complete_traces, saved, last_resume, root, other, running,
          shared, loop, detailed, client>>

\* the state of the conversation root manager
rootVars == <<saved, last_resume, root>>

\* the state of the second call
concVars == <<other, running, shared>>

Message(role, content) == [role |-> role, content |-> content]

NoPending == [tool |-> "", arguments |-> <<>>]

\* no utility function is being called on its own
NoProbe == [fn |-> "none", input |-> <<>>, done |-> FALSE, out |-> <<>>]

\* ------------------------------------------------------------------------
\* Token counting
\* ------------------------------------------------------------------------
\* len(enc.encode(content)): one token per symbol
EncLen(content) == Len(content)

\* len(repr(content)): four characters per symbol and the two quotes
ReprLen(content) == 4 * Len(content) + 2

\* len(repr(role))
RoleReprLen(role) ==
    CASE role = "system" -> 8
      [] role = "user" -> 6
      [] role = "assistant" -> 11
      [] OTHER -> 2

RECURSIVE SumTokens(_)
SumTokens(msgs) ==
    IF msgs = <<>> THEN 0
    ELSE 4 + EncLen(Head(msgs).content) + SumTokens(Tail(msgs))

RECURSIVE SumReprLen(_)
\* total length of the reprs of the message dicts:
\* {'role': <role>, 'content': <content>}
SumReprLen(msgs) ==
    IF msgs = <<>> THEN 0
    ELSE 9 + RoleReprLen(Head(msgs).role) + 13 + ReprLen(Head(msgs).content) + 1
           + SumReprLen(Tail(msgs))

\* len(str(messages)): brackets, the dicts and ", " between them
StrLen(msgs) ==
    2 + SumReprLen(msgs) + (IF Len(msgs) > 1 THEN 2 * (Len(msgs) - 1) ELSE 0)

num_tokens(msgs) ==
    IF tiktoken THEN SumTokens(msgs) ELSE StrLen(msgs) \div 4

\* ------------------------------------------------------------------------
\* Prompt and event helpers
\* ------------------------------------------------------------------------
create_available_tools_block ==
    <<"AO", "nl">>
        \o [i \in 1..Len(tools_config) |-> tools_config[i].tool_name]
        \o <<"nl", "AC">>

build_initial_prompt(u) ==
    <<"INSTRUCTIONS", "nl", "nl", "User:", u, "nl", "nl">>
        \o create_available_tools_block \o <<"nl", "nl">>

RECURSIVE Str(_)
\* str(messages)
Str(msgs) ==
    IF msgs = <<>> THEN <<>>
    ELSE <<Head(msgs).role>> \o Head(msgs).content \o Str(Tail(msgs))

\* f"<mcp_tool_result>\n{result}\n</mcp_tool_result>"
ResultBlock(result) == <<"RO", "nl">> \o result \o <<"nl", "RC">>

\* the list conversation_history after _log_conversation(role, content)
log_conversation(history, role, content) ==
    Append(history, [role |-> role, content |-> content])

\* logger.events after _log_conversation(role, content): the event reaches
\* the sink only when there is one
log_event(lg, evs, role, content) ==
    IF lg THEN Append(evs, [role |-> role, content |-> content]) ELSE evs

\* the record with the final answer as it was cleaned in place of the raw one
trace_data_cleaned(raw, final_output, clean) ==
    [conversation |-> Append(raw, [role |-> "assistant", content |-> clean]),
     final_clean_output |-> clean]

\* the dictionary handed to log_complete_trace: the raw conversation closed
\* by the raw final output, and the cleaned output
trace_data(raw, final_output, clean) ==
    [conversation |->
         Append(raw, [role |-> "assistant", content |-> final_output]),
     final_clean_output |-> clean]

\* logger.complete_traces after log_complete_trace(data): the record takes
\* a copy of the events logged so far
log_complete_trace(traces, evs, data) ==
    Append(traces, [conversation |-> data.conversation,
                    final_clean_output |-> data.final_clean_output,
                    events |-> evs])

\* ------------------------------------------------------------------------
\* _handle_tool_call up to the executor call
\* ------------------------------------------------------------------------
RECURSIVE Join(_, _)
\* sep.join(parts), every part a text
Join(parts, sep) ==
    IF parts = <<>> THEN <<>>
    ELSE IF Len(parts) = 1 THEN Head(parts)
    ELSE Head(parts) \o <<sep>> \o Join(Tail(parts), sep)

\* next(tool for tool in tools_config if tool["tool_name"] == tool_name)
FindSchema(tool_name) ==
    LET hits == {i \in 1..Len(tools_config) : tools_config[i].tool_name = tool_name}
    IN  IF hits = {} THEN [found |-> FALSE, schema |-> Schema("", <<>>, FALSE, <<>>)]
        ELSE [found |-> TRUE, schema |-> tools_config[MinOf(hits)]]

\* tool_schema.get("required", [])
RequiredArgs(schema) == IF schema.has_required THEN schema.required ELSE <<>>

format_argument_descriptions(expected_args, required_args) ==
    [i \in 1..Len(expected_args) |->
        <<"-", expected_args[i].k, expected_args[i].type,
          IF \E j \in 1..Len(required_args) : required_args[j] = expected_args[i].k
          THEN "required" ELSE "optional">>]

MissingNameError(parsed) ==
    <<"ERROR: Invalid tool call.", "Missing or invalid 'tool_name' field">>
        \o (IF parsed.method # "direct"
            THEN <<"JSON parsing method:", parsed.method>>
                     \o (IF parsed.error # NoError
                         THEN <<"Error:", parsed.error>> ELSE <<>>)
            ELSE <<>>)
        \o <<"Please provide a valid JSON object">>

\* the error of validate_tool_call, which names no available tool
ToolNotFoundErrorBare(tool_name) ==
    <<"ERROR: Tool", tool_name, "not found.">>

ToolNotFoundError(tool_name) ==
    <<"ERROR: Tool", tool_name, "not found. Available tools are:">>
        \o Join([i \in 1..Len(tools_config) |-> <<tools_config[i].tool_name>>], ",")

InvalidArgumentsError(tool_name, v, expected_args, required_args) ==
    LET missing  == IF v.missing_args = <<>> THEN <<>>
                    ELSE << <<"Missing required arguments:">>
                              \o Join([i \in 1..Len(v.missing_args) |->
                                          <<v.missing_args[i]>>], ",") >>
        mismatch == IF v.type_mismatches = <<>> THEN <<>>
                    ELSE << <<"Type mismatches:">>
                              \o Join([i \in 1..Len(v.type_mismatches) |->
                                          <<v.type_mismatches[i].k, "expected",
                                            v.type_mismatches[i].expected, "got",
                                            v.type_mismatches[i].got>>], ",") >>
    IN  <<"ERROR: Invalid arguments for tool", tool_name, "nl">>
            \o Join(missing \o mismatch, ";")
            \o <<"nl", "nl", "Expected arguments:", "nl">>
            \o Join(format_argument_descriptions(expected_args, required_args), "nl")

ExecutionError(tool_name, error_type) ==
    <<"ERROR (", categorize_error(error_type), "): Failed to execute tool",
      tool_name, "nl", "friendly message", "nl",
      "Please check your inputs and try again.">>

\* the tool name and arguments taken from the parsed payload
ToolName(tool_call) ==
    IF tool_call.is_dict /\ tool_call.has_name THEN tool_call.tool_name ELSE ""

Arguments(tool_call) ==
    IF tool_call.is_dict /\ tool_call.args_kind = "dict" THEN tool_call.args ELSE <<>>

\* handle_tool_call without the check of the arguments
handle_tool_call_unchecked(call_content) ==
    LET Looked(parsed, tool_name, arguments, found) ==
            IF tool_name = ""
            THEN [execute |-> FALSE, tool |-> tool_name, arguments |-> arguments,
                  result |-> MissingNameError(parsed)]
            ELSE IF ~found.found
            THEN [execute |-> FALSE, tool |-> tool_name, arguments |-> arguments,
                  result |-> ToolNotFoundError(tool_name)]
            ELSE [execute |-> TRUE, tool |-> tool_name, arguments |-> arguments,
                  result |-> <<>>]
        Named(parsed, tool_name) ==
            Looked(parsed, tool_name, Arguments(parsed.tool_call),
                   FindSchema(tool_name))
        Parsed(parsed) == Named(parsed, ToolName(parsed.tool_call))
    IN  Parsed(repair_json(call_content))

\* parse, look the tool up and validate: either the diagnostic the handler
\* returns at once, or the executor call it makes
handle_tool_call(call_content) ==
    LET Validated(parsed, tool_name, arguments, found, v) ==
            IF tool_name = ""
            THEN [execute |-> FALSE, tool |-> tool_name, arguments |-> arguments,
                  result |-> MissingNameError(parsed)]
            ELSE IF ~found.found
            THEN [execute |-> FALSE, tool |-> tool_name, arguments |-> arguments,
                  result |-> ToolNotFoundError(tool_name)]
            ELSE IF v.missing_args # <<>> \/ v.type_mismatches # <<>>
            THEN [execute |-> FALSE, tool |-> tool_name, arguments |-> arguments,
                  result |-> InvalidArgumentsError(tool_name, v,
                                                   found.schema.arguments,
                                                   RequiredArgs(found.schema))]
            ELSE [execute |-> TRUE, tool |-> tool_name, arguments |-> arguments,
                  result |-> <<>>]
        Looked(parsed, tool_name, arguments, found) ==
            Validated(parsed, tool_name, arguments, found,
                      validate_tool_arguments(arguments, found.schema.arguments,
                                              RequiredArgs(found.schema)))
        Named(parsed, tool_name) ==
            Looked(parsed, tool_name, Arguments(parsed.tool_call),
                   FindSchema(tool_name))
        Parsed(parsed) == Named(parsed, ToolName(parsed.tool_call))
    IN  Parsed(repair_json(call_content))

\* ------------------------------------------------------------------------
\* Snapshot and resume of the conversation root
\* ------------------------------------------------------------------------
\* a Python list holding a copy of the elements
PyList(elements) == [type |-> "list", alias |-> FALSE, value |-> elements]

\* a reference to a list of the orchestrator itself
PyAlias == [type |-> "list", alias |-> TRUE, value |-> <<>>]

\* a value of another container type
PyOther(t) == [type |-> t, alias |-> FALSE, value |-> <<>>]

\* the elements of a list value; a reference is read through
Contents(field, live) == IF field.alias THEN live ELSE field.value

\* a snapshot that hands out the orchestrator's own lists
snapshot_shallow(msgs, records) ==
    [messages |-> PyAlias, tool_call_records |-> PyAlias]

\* snapshot(): a deep, independent copy of {messages, tool_call_records}
snapshot(msgs, records) ==
    [messages |-> PyList(msgs), tool_call_records |-> PyList(records)]

\* resume that loads the messages before it looks at the records
resume_partial(msgs, records, snap) ==
    IF snap.messages.type # "list"
    THEN [error |-> "TypeError", messages |-> msgs, records |-> records]
    ELSE IF snap.tool_call_records.type # "list"
         THEN [error |-> "TypeError",
               messages |-> Contents(snap.messages, msgs), records |-> records]
         ELSE [error |-> "none",
               messages |-> Contents(snap.messages, msgs),
               records |-> Contents(snap.tool_call_records, records)]

\* resume(snapshot): every field is type-checked before live state is
\* replaced; a malformed snapshot raises TypeError and loads nothing
resume(msgs, records, snap) ==
    IF snap.messages.type = "list" /\ snap.tool_call_records.type = "list"
    THEN [error |-> "none",
          messages |-> Contents(snap.messages, msgs),
          records |-> Contents(snap.tool_call_records, records)]
    ELSE [error |-> "TypeError", messages |-> msgs, records |-> records]

\* the caller holds no snapshot
NoSnapshot == [held |-> FALSE, dict |-> snapshot(<<>>, <<>>)]

\* resume has not been called
NoResume == [called |-> FALSE, snapshot |-> snapshot(<<>>, <<>>), error |-> "none"]

\* no snapshot has been taken and no resume call made: turn is the number
\* of calls made when the live state last was that of the snapshot, direct
\* tells that it was
NoRoot == [turn |-> 0, direct |-> FALSE, resumes |-> 0]

\* there is no second call
NoCall == [pc |-> "absent"]

\* a single orchestrator, a single caller and no snapshot
Alone ==
    /\ saved = NoSnapshot
    /\ last_resume = NoResume
    /\ root = NoRoot
    /\ other = NoCall
    /\ running = 1
    /\ shared = FALSE

\* ------------------------------------------------------------------------
\* generate_and_intercept of utils/streaming.py
\* ------------------------------------------------------------------------
\* The function is run next to _generate_and_intercept of the orchestrator:
\* it is called with a list that holds the same messages, its generator
\* yields the same tokens and its handler is the same _handle_tool_call.
\* The record holds its parameters, its locals and what it has handed to
\* its collaborators:
\*   context          the list it was called with
\*   trace            raw_conversation_for_trace
\*   log_events       the calls of _log_event, which reach the logger when
\*                    there is one
\*   handled          the payloads handle_tool_call_fn was called with
\* "on" tells whether the function is run at all.
NoLoop ==
    [on |-> FALSE, pc |-> "idle", context |-> <<>>, output_buffer |-> <<>>,
     thought_found |-> FALSE, tool_call_found |-> FALSE, trace |-> <<>>,
     log_events |-> <<>>, handled |-> <<>>, pending |-> NoPending,
     outcome |-> "none", returned |-> <<>>]

\* the event _log_event builds
Event(role, content, event_type) ==
    [role |-> role, content |-> content, event_type |-> event_type]

\* json.dumps(messages)
json_dumps(msgs) == <<"[">> \o Str(msgs) \o <<"]">>

\* the history list after record_conversation_event: an event with metadata
\* goes to the logger only
record_conversation_event(history, role, content, event_type) ==
    IF event_type = "" THEN Append(history, Message(role, content)) ELSE history

\* a thought is surfaced by every token that finds one in the buffer
SurfacesEveryToken(found, thought_content) == Truthy(thought_content)

\* "if not thought_found and (thought_content := extract_thought_fn(combined))"
Surfaces(found, thought_content) == ~found /\ Truthy(thought_content)

\* top of the while loop: the flags are reset and the prompt is logged
LoopPassStarts(l) ==
    [l EXCEPT !.tool_call_found = FALSE,
              !.thought_found = FALSE,
              !.pc = "streaming",
              !.trace = record_conversation_event(@, "llm_prompt",
                                                  json_dumps(l.context),
                                                  "llm_prompt"),
              !.log_events = Append(@, Event("llm_prompt", json_dumps(l.context),
                                             "llm_prompt"))]

\* the function is called: the buffer is empty and the trace starts as a
\* copy of the context
LoopCalled(context) ==
    LoopPassStarts([NoLoop EXCEPT !.on = TRUE, !.context = context,
                                  !.trace = context])

\* the handler has returned tool_result: the result is logged, the pair is
\* appended to the context, the buffer cleared and the next pass started
LoopInjected(l, tool_result) ==
    LoopPassStarts(
        [l EXCEPT
           !.log_events = Append(@, Event("system", ResultBlock(tool_result),
                                          "tool_result_injection")),
           !.trace = Append(@, Message("system", ResultBlock(tool_result))),
           !.context = record_conversation_event(
                           @, "system", ResultBlock(tool_result),
                           "tool_result_injection")
                         \o <<Message("assistant", Flatten(l.output_buffer)),
                              Message("system", ResultBlock(tool_result))>>,
           !.output_buffer = <<>>,
           !.pending = NoPending])

\* the handler is called with the payload of the block found in the buffer
LoopHandles(l, call_content, h) ==
    IF h.execute
    THEN [l EXCEPT !.handled = Append(@, call_content),
                   !.pending = [tool |-> h.tool, arguments |-> h.arguments],
                   !.pc = "executing"]
    ELSE LoopInjected([l EXCEPT !.handled = Append(@, call_content)], h.result)

\* the buffer has been scanned for a tool call
LoopScanned(l, combined, call_content) ==
    IF ~Truthy(call_content) THEN l
    ELSE LoopHandles(
             [l EXCEPT
                !.tool_call_found = TRUE,
                !.log_events =
                    Append(@, Event("llm_raw_response", combined,
                                    "llm_raw_response_with_tool_call")),
                !.trace = Append(record_conversation_event(
                                     @, "llm_raw_response", combined,
                                     "llm_raw_response_with_tool_call"),
                                 Message("assistant", combined))],
             call_content.content, handle_tool_call(call_content.content))

\* the buffer has been scanned for a thought
LoopThought(l, combined, thought_content) ==
    IF Surfaces(l.thought_found, thought_content)
    THEN [l EXCEPT
            !.thought_found = TRUE,
            !.log_events = Append(@, Event("assistant_thought",
                                           thought_content.content,
                                           "assistant_thought")),
            !.context = record_conversation_event(
                            @, "assistant_thought", thought_content.content,
                            "assistant_thought"),
            !.trace = Append(@, Message("assistant_thought",
                                        thought_content.content))]
    ELSE l

\* the generator yields a token
LoopToken(l, token) ==
    IF l.pc # "streaming" THEN l
    ELSE LET buffer   == Append(l.output_buffer, token)
             combined == Flatten(buffer)
         IN  LoopScanned(
                 LoopThought([l EXCEPT !.output_buffer = buffer], combined,
                             extract_thought_if_present(combined)),
                 combined, extract_tool_call_if_present(combined))

\* the awaited handler returns
LoopResult(l, tool_result) ==
    IF l.pc # "executing" THEN l ELSE LoopInjected(l, tool_result)

\* the generator is exhausted and no block was found: the raw output is
\* logged, cleaned, logged again without metadata, which appends it to the
\* history list it is given, the context, and returned
LoopEnds(l) ==
    IF l.pc # "streaming" THEN l
    ELSE LET raw     == Flatten(l.output_buffer)
             cleaned == clean_output(raw)
         IN  [l EXCEPT
                !.log_events =
                    @ \o <<Event("llm_raw_response", raw,
                                 "llm_raw_response_no_tool_call"),
                           Event("assistant", cleaned, "")>>,
                !.context = record_conversation_event(@, "assistant", cleaned, ""),
                !.trace = <<>>,
                !.output_buffer = <<>>,
                !.thought_found = FALSE,
                !.tool_call_found = FALSE,
                !.returned = cleaned,
                !.outcome = "returned",
                !.pc = "idle"]

\* an exception of the generator leaves the function
LoopRaised(l) ==
    [l EXCEPT !.trace = <<>>, !.output_buffer = <<>>, !.thought_found = FALSE,
              !.tool_call_found = FALSE, !.pending = NoPending,
              !.outcome = "raised", !.pc = "idle"]

\* the function takes the step only when it is run
Runs(l, next) == IF l.on THEN next ELSE l

\* ------------------------------------------------------------------------
\* process_detailed_async and the responses it returns
\* ------------------------------------------------------------------------
\* "on" tells whether the caller makes its calls through
\* process_detailed_async; responses are the objects it was handed
NoDetail == [on |-> FALSE, responses |-> <<>>]

\* DetailedResponse(result, tool_calls): "tool_calls or []" keeps the list
\* it is given unless that list is empty
DetailedResponse(result, tool_calls) ==
    [result |-> result,
     tool_calls |-> IF tool_calls = <<>> THEN PyList(<<>>) ELSE PyAlias]

\* the response of the call the caller made as its t-th
Returned(t, response) == [turn |-> t] @@ response

\* the record list is emptied in place: the responses that hold it see it
\* change
ClearedInPlace(responses, calls) == responses

\* "self._last_tool_calls = []" binds a new list: a response that holds the
\* old one keeps it, with the records it has
Rebound(responses, calls) ==
    [i \in DOMAIN responses |->
        IF responses[i].tool_calls.alias
        THEN [responses[i] EXCEPT !.tool_calls = PyList(calls)]
        ELSE responses[i]]

\* ------------------------------------------------------------------------
\* JikiClient
\* ------------------------------------------------------------------------
\* a JikiClient as __init__ leaves it, no invocation made on it
NoClient == [interaction_traces |-> <<>>, invocations |-> <<>>]

\* the tools and arguments execute_tool_call is invoked with
ClientCalls ==
    { [tool_name |-> "add", arguments |-> <<"a", "1">>],
      [tool_name |-> "echo", arguments |-> <<"text", "hi">>] }

\* what client.call_tool returns: a list of content items, a text item
\* given by its text, an image item by its mime type, None items
RawResults ==
    { <<[type |-> "text", text |-> "r1"]>>,
      <<[type |-> "text", text |-> "r2"]>>,
      <<[type |-> "none", text |-> ""], [type |-> "image", text |-> "png"]>> }

\* what client.call_tool or the connection raises
CallErrors == {"timeout"}

\* _process_mcp_result: the parts of the items, None items skipped,
\* joined by newlines
ProcessedPart(item) ==
    IF item.type = "text" THEN <<item.text>>
    ELSE <<"[Image Content (", item.text, ")]">>

process_mcp_result(result_content_list) ==
    LET kept == SelectSeq(result_content_list, LAMBDA item : item.type # "none")
    IN  Join([k \in 1..Len(kept) |-> ProcessedPart(kept[k])], "nl")

\* an entry of interaction_traces: a dict, given by its keys and the
\* values under them
TraceEntry(keys) ==
    [keys |-> keys, handshake |-> <<>>, log |-> <<>>, tool_call |-> <<>>,
     tool_result |-> <<>>, error |-> <<>>, error_code |-> 0]

\* the string execute_tool_call logs for a call and later searches for
mcp_tool_call_log(tool_name, arguments) ==
    <<"<mcp_tool_call>", "nl", "{", "tool_name", tool_name, "arguments">>
        \o arguments \o <<"}", "nl", "</mcp_tool_call>">>

mcp_tool_result_log(text) ==
    <<"<mcp_tool_result>", "nl">> \o text \o <<"nl", "</mcp_tool_result>">>

\* the entry execute_tool_call appends before it awaits the tool
CallEntry(tool_name, arguments) ==
    [TraceEntry({"tool_call", "used_mcp"}) EXCEPT
        !.tool_call = mcp_tool_call_log(tool_name, arguments)]

\* the error of a failed communication and its JSON-RPC payload
ErrorMessage(tool_name, e) ==
    <<"Failed MCP communication for tool", tool_name, e>>

ErrorPayloadJson(tool_name, e) ==
    <<"{", "error", "code", "-32000", "message">>
        \o ErrorMessage(tool_name, e) \o <<"}">>

\* the entry the search "for trace in reversed(self.interaction_traces)"
\* stops at: the last one logged with this string, 0 when there is none
FoundEntry(traces, call_log) ==
    LET hits == { k \in 1..Len(traces) :
                      /\ "tool_call" \in traces[k].keys
                      /\ traces[k].tool_call = call_log }
    IN  IF hits = {} THEN 0 ELSE CHOOSE k \in hits : \A j \in hits : j <= k

\* the success result written on the entry found
ResultAttached(traces, call_log, result_str) ==
    LET k == FoundEntry(traces, call_log)
    IN  IF k = 0 THEN traces
        ELSE [traces EXCEPT ![k] =
                 [@ EXCEPT !.keys = @ \cup {"tool_result"},
                           !.tool_result = mcp_tool_result_log(result_str)]]

\* the error result written on the entry found
ErrorAttached(traces, call_log, tool_name, e) ==
    LET k == FoundEntry(traces, call_log)
    IN  IF k = 0 THEN traces
        ELSE [traces EXCEPT ![k] =
                 [@ EXCEPT !.keys = @ \cup {"tool_result", "error", "error_code"},
                           !.tool_result =
                               mcp_tool_result_log(ErrorPayloadJson(tool_name, e)),
                           !.error = ErrorMessage(tool_name, e),
                           !.error_code = -32000]]

\* an execute_tool_call invocation: its parameters, where it stands, the
\* position of the entry it appended and what it returned
Invocation(call, entry) ==
    [tool_name |-> call.tool_name, arguments |-> call.arguments,
     pc |-> "awaiting", entry |-> entry, outcome |-> "none", error |-> "",
     returned |-> <<>>]

\* the orchestrator's own loop only, calls made through process_user_input
\* and no client exercised on its own
Plain ==
    /\ loop = NoLoop
    /\ detailed = NoDetail
    /\ client = NoClient

\* ------------------------------------------------------------------------
\* Initial state: the orchestrator as __init__ leaves it
\* ------------------------------------------------------------------------
Constructed ==
    /\ messages = <<>>
    /\ last_tool_calls = <<>>
    /\ conversation_history = <<>>
    /\ tiktoken \in BOOLEAN
    /\ pc = "idle"
    /\ user_input = ""
    /\ max_tokens_ctx \in Budgets
    /\ output_buffer = <<>>
    /\ thought_found = FALSE
    /\ tool_call_found = FALSE
    /\ pending = NoPending
    /\ outcome = "none"
    /\ returned = <<>>
    /\ ncalls = 0
    /\ executor_calls = <<>>
    /\ trim_input = <<>>
    /\ logger \in BOOLEAN
    /\ raw_conversation = <<>>
    /\ events = <<>>
    /\ complete_traces = <<>>

\* the default construction: no logger is passed
Init ==
    Constructed /\ Alone /\ Plain /\ turn = 0 /\ ~logger /\ probe = NoProbe

\* a construction with or without a logger
TraceInit == Constructed /\ Alone /\ Plain /\ turn = 0 /\ probe = NoProbe

\* ------------------------------------------------------------------------
\* process_user_input
\* ------------------------------------------------------------------------
\* the next pass goes on with the buffer of the pass before
StartPassKeepsBuffer ==
    /\ tool_call_found' = FALSE
    /\ thought_found' = FALSE
    /\ output_buffer' = output_buffer

\* top of the while loop of _generate_and_intercept: the flags are reset
\* and generate_tokens(context) is called
StartPass ==
    /\ tool_call_found' = FALSE
    /\ thought_found' = FALSE
    /\ output_buffer' = <<>>

\* a test that takes every turn for the first
FirstTurnAlways(msgs) == TRUE

\* the test "if not self._messages"
FirstTurn(msgs) == msgs = <<>>

\* the list left as it is
KeepToolCalls(calls) == calls

\* self._last_tool_calls = []
ResetToolCalls(calls) == <<>>

\* the call is made: the record list is reset and the input appended
StartTurn(u) ==
    /\ pc = "idle"
    /\ turn < MaxTurns
    /\ last_tool_calls' = ResetToolCalls(last_tool_calls)
    /\ messages' = IF FirstTurn(messages)
                   THEN Append(messages, Message("system", build_initial_prompt(u)))
                   ELSE Append(messages, Message("user", <<u>>))
    /\ trim_input' = messages'
    /\ pc' = "trimming"
    /\ turn' = turn + 1
    /\ user_input' = u
    /\ outcome' = "none"
    /\ returned' = <<>>
    /\ detailed' = [detailed EXCEPT !.responses = Rebound(@, last_tool_calls)]
    /\ UNCHANGED <<client, loop,
                   rootVars, concVars, probe,
                   conversation_history, tiktoken, max_tokens_ctx, output_buffer,
                   thought_found, tool_call_found, pending, ncalls,
                   executor_calls, logger, raw_conversation, events,
                   complete_traces>>

\* the trimming loop with "len(messages) > 1"
TrimConditionOne(msgs, budget) == num_tokens(msgs) > budget /\ Len(msgs) > 1

\* the condition of the trimming loop
TrimCondition(msgs, budget) == num_tokens(msgs) > budget /\ Len(msgs) > 2

\* messages.pop(0)
Pop0(msgs) == Tail(msgs)

\* messages.pop(-1)
PopLast(msgs) == SubSeq(msgs, 1, Len(msgs) - 1)

\* messages.pop(1)
Pop1(msgs) == <<msgs[1]>> \o SubSeq(msgs, 3, Len(msgs))

\* one iteration of the trimming loop
TrimStep ==
    /\ pc = "trimming"
    /\ TrimCondition(messages, max_tokens_ctx)
    /\ messages' = Pop1(messages)
    /\ UNCHANGED <<client, loop, detailed,
                   rootVars, concVars, probe,
                   last_tool_calls, conversation_history, tiktoken, pc, turn,
                   user_input, max_tokens_ctx, output_buffer, thought_found,
                   tool_call_found, pending, outcome, returned,
                   ncalls, executor_calls, trim_input, logger,
                   raw_conversation, events, complete_traces>>

\* the trimming loop is left, the prompt is logged and the first
\* generation pass starts
BeginGenerate ==
    /\ pc = "trimming"
    /\ ~TrimCondition(messages, max_tokens_ctx)
    /\ conversation_history' =
           log_conversation(conversation_history, "system", Str(messages))
    /\ events' = log_event(logger, events, "system", Str(messages))
    /\ raw_conversation' = <<Message("system", messages[1].content)>>
    /\ StartPass
    /\ pc' = "streaming"
    /\ trim_input' = <<>>
    /\ loop' = Runs(loop, LoopCalled(messages))
    /\ UNCHANGED <<client, detailed,
                   rootVars, concVars, probe,
                   messages, last_tool_calls, tiktoken, turn, user_input,
                   max_tokens_ctx, pending, outcome, returned, ncalls,
                   executor_calls, logger, complete_traces>>

\* Splice with the two messages in the wrong order
SpliceResultFirst(msgs, combined_output, tool_result) ==
    msgs \o <<Message("system", ResultBlock(tool_result)),
              Message("assistant", combined_output)>>

\* the pair is inserted right after message 0
SpliceAfterBootstrap(msgs, combined_output, tool_result) ==
    <<msgs[1], Message("assistant", combined_output),
      Message("system", ResultBlock(tool_result))>> \o Tail(msgs)

\* the context after a tool round-trip
Splice(msgs, combined_output, tool_result) ==
    msgs \o <<Message("assistant", combined_output),
              Message("system", ResultBlock(tool_result))>>

\* the handler has run on the block found in the buffer
Handled(buffer, combined_output, thought_content, h) ==
    IF h.execute
    THEN \* the handler awaits mcp_client.execute_tool_call
         /\ output_buffer' = buffer
         /\ thought_found' = (thought_found \/ Truthy(thought_content))
         /\ tool_call_found' = TRUE
         /\ pending' = [tool |-> h.tool, arguments |-> h.arguments]
         /\ executor_calls' =
                Append(executor_calls,
                       [turn |-> turn, tool |-> h.tool,
                        arguments |-> h.arguments, outcome |-> "pending"])
         /\ ncalls' = ncalls + 1
         /\ pc' = "executing"
         /\ raw_conversation' =
                Append(raw_conversation, Message("assistant", combined_output))
         /\ UNCHANGED <<messages, conversation_history, events>>
    ELSE \* the handler returns a diagnostic without any await
         /\ conversation_history' =
                log_conversation(conversation_history, "system",
                                 ResultBlock(h.result))
         /\ events' = log_event(logger, events, "system", ResultBlock(h.result))
         /\ raw_conversation' =
                raw_conversation
                    \o <<Message("assistant", combined_output),
                         Message("system", ResultBlock(h.result))>>
         /\ messages' = Splice(messages, combined_output, h.result)
         /\ ncalls' = ncalls + 1
         /\ StartPass
         /\ UNCHANGED <<pc, pending, executor_calls>>

\* the buffer has been scanned for a thought and for a tool call
Scanned(buffer, combined_output, thought_content, call_content) ==
    IF ~Truthy(call_content)
    THEN /\ output_buffer' = buffer
         /\ thought_found' = (thought_found \/ Truthy(thought_content))
         /\ UNCHANGED <<messages, conversation_history, pc,
                        tool_call_found, pending, ncalls, executor_calls,
                        raw_conversation, events>>
    ELSE Handled(buffer, combined_output, thought_content,
                 handle_tool_call(call_content.content))

\* the token has been appended and the buffer joined
Joined(buffer, combined_output) ==
    Scanned(buffer, combined_output,
            extract_thought_if_present(combined_output),
            extract_tool_call_if_present(combined_output))

\* the model yields its next token
NextToken(token) ==
    /\ pc = "streaming"
    /\ token \in NextTokens(output_buffer, ncalls)
    /\ Joined(Append(output_buffer, token), Flatten(Append(output_buffer, token)))
    /\ loop' = Runs(loop, LoopToken(loop, token))
    /\ UNCHANGED <<client, detailed,
                   rootVars, concVars, probe,
                   last_tool_calls, tiktoken, turn, user_input, max_tokens_ctx,
                   outcome, returned, trim_input, logger, complete_traces>>

\* the executor's call list once its last call has returned or raised
Completed(calls, how) == [calls EXCEPT ![Len(calls)].outcome = how]

\* ExecutorReturns in a loop that allows one tool call: the result is
\* spliced in and the call returns
ExecutorReturnsCapped(r) ==
    /\ pc = "executing"
    /\ last_tool_calls' =
           Append(last_tool_calls,
                  [tool |-> pending.tool, arguments |-> pending.arguments,
                   result |-> <<r>>])
    /\ conversation_history' =
           log_conversation(conversation_history, "system", ResultBlock(<<r>>))
    /\ messages' = Splice(messages, Flatten(output_buffer), <<r>>)
    /\ pending' = NoPending
    /\ StartPass
    /\ pc' = "idle"
    /\ outcome' = "returned"
    /\ user_input' = ""
    /\ raw_conversation' = <<>>
    /\ executor_calls' = Completed(executor_calls, "returned")
    /\ UNCHANGED <<client, loop, detailed,
                   rootVars, concVars, probe, tiktoken, turn, max_tokens_ctx,
                   returned, ncalls, trim_input, logger, events,
                   complete_traces>>

\* the executor returns: the call is recorded and the result spliced in
ExecutorReturns(r) ==
    /\ pc = "executing"
    /\ last_tool_calls' =
           Append(last_tool_calls,
                  [tool |-> pending.tool, arguments |-> pending.arguments,
                   result |-> <<r>>])
    /\ conversation_history' =
           log_conversation(conversation_history, "system", ResultBlock(<<r>>))
    /\ events' = log_event(logger, events, "system", ResultBlock(<<r>>))
    /\ raw_conversation' =
           Append(raw_conversation, Message("system", ResultBlock(<<r>>)))
    /\ messages' = Splice(messages, Flatten(output_buffer), <<r>>)
    /\ pending' = NoPending
    /\ StartPass
    /\ pc' = "streaming"
    /\ executor_calls' = Completed(executor_calls, "returned")
    /\ loop' = Runs(loop, LoopResult(loop, <<r>>))
    /\ UNCHANGED <<client, detailed,
                   rootVars, concVars, probe,
                   tiktoken, turn, user_input, max_tokens_ctx, outcome,
                   returned, ncalls, trim_input, logger, complete_traces>>

\* the locals of a call that has ended
FrameGone ==
    /\ output_buffer' = <<>>
    /\ thought_found' = FALSE
    /\ tool_call_found' = FALSE
    /\ user_input' = ""
    /\ raw_conversation' = <<>>

\* ExecutorRaises without the except clause: the exception leaves the call
ExecutorRaisesPropagates(e) ==
    /\ pc = "executing"
    /\ executor_calls' = Completed(executor_calls, "raised")
    /\ pending' = NoPending
    /\ outcome' = "raised"
    /\ pc' = "idle"
    /\ FrameGone
    /\ UNCHANGED <<client, loop, detailed,
                   rootVars, concVars, probe,
                   messages, last_tool_calls, conversation_history, tiktoken,
                   turn, max_tokens_ctx, returned, ncalls, trim_input,
                   logger, events, complete_traces>>

\* the executor raises: the error is classified and spliced in
ExecutorRaises(e) ==
    /\ pc = "executing"
    /\ conversation_history' =
           log_conversation(conversation_history, "system",
                            ResultBlock(ExecutionError(pending.tool, e)))
    /\ events' = log_event(logger, events, "system",
                            ResultBlock(ExecutionError(pending.tool, e)))
    /\ raw_conversation' =
           Append(raw_conversation,
                  Message("system", ResultBlock(ExecutionError(pending.tool, e))))
    /\ messages' = Splice(messages, Flatten(output_buffer),
                          ExecutionError(pending.tool, e))
    /\ pending' = NoPending
    /\ StartPass
    /\ pc' = "streaming"
    /\ executor_calls' = Completed(executor_calls, "raised")
    /\ loop' = Runs(loop, LoopResult(loop, ExecutionError(loop.pending.tool, e)))
    /\ UNCHANGED <<client, detailed,
                   rootVars, concVars, probe,
                   last_tool_calls, tiktoken, turn, user_input, max_tokens_ctx,
                   outcome, returned, ncalls, trim_input, logger,
                   complete_traces>>

\* the answer is returned and the context left as the loop left it
AnswerDropped(msgs, final_answer) == msgs

\* self._messages.append({"role": "assistant", "content": final_answer})
AnswerAppended(msgs, final_answer) ==
    Append(msgs, Message("assistant", final_answer))

\* StreamEnds without the break: the loop starts another pass
StreamEndsRestarts ==
    /\ pc = "streaming"
    /\ MayEnd(output_buffer, ncalls)
    /\ StartPass
    /\ UNCHANGED <<client, loop, detailed,
                   rootVars, concVars, probe,
                   messages, last_tool_calls, conversation_history, tiktoken,
                   pc, turn, user_input, max_tokens_ctx, pending, outcome,
                   returned, ncalls, executor_calls, trim_input, logger,
                   raw_conversation, events, complete_traces>>

\* the stream ends without a tool call: the answer is cleaned, logged,
\* appended to the context and returned
StreamEnds ==
    /\ pc = "streaming"
    /\ MayEnd(output_buffer, ncalls)
    /\ returned' = clean_output(Flatten(output_buffer))
    /\ conversation_history' =
           log_conversation(conversation_history, "assistant", returned')
    /\ complete_traces' =
           IF logger
           THEN log_complete_trace(complete_traces, events,
                                   trace_data(raw_conversation,
                                              Flatten(output_buffer), returned'))
           ELSE complete_traces
    /\ events' = log_event(logger, <<>>, "assistant", returned')
    /\ messages' = AnswerAppended(messages, returned')
    /\ outcome' = "returned"
    /\ pc' = "idle"
    /\ FrameGone
    /\ loop' = Runs(loop, LoopEnds(loop))
    /\ detailed' =
           IF detailed.on
           THEN [detailed EXCEPT
                   !.responses =
                       Append(@, Returned(turn, DetailedResponse(
                                              returned', last_tool_calls)))]
           ELSE detailed
    /\ UNCHANGED <<client,
                   rootVars, concVars, probe,
                   last_tool_calls, tiktoken, turn, max_tokens_ctx, pending,
                   ncalls, executor_calls, trim_input, logger>>

\* the token stream raises: the exception leaves process_user_input
StreamRaises ==
    /\ pc = "streaming"
    /\ outcome' = "raised"
    /\ pc' = "idle"
    /\ FrameGone
    /\ loop' = Runs(loop, LoopRaised(loop))
    /\ UNCHANGED <<client, detailed,
                   rootVars, concVars, probe,
                   messages, last_tool_calls, conversation_history, tiktoken,
                   turn, max_tokens_ctx, pending, returned, ncalls,
                   executor_calls, trim_input, logger, events,
                   complete_traces>>

\* every token of every stream
Tokens == UNION {{s[i] : i \in 1..Len(s)} : s \in Streams}

Next ==
    \/ \E u \in UserInputs(turn + 1) : StartTurn(u)
    \/ TrimStep
    \/ BeginGenerate
    \/ \E token \in Tokens : NextToken(token)
    \/ \E r \in ToolResults : ExecutorReturns(r)
    \/ \E e \in ExecutorErrors : ExecutorRaises(e)
    \/ StreamEnds
    \/ StreamRaises

Spec == Init /\ [][Next]_vars

\* A call in progress goes on: the event loop resumes the coroutine, every
\* token stream yields its next token, ends or raises, and every executor
\* call returns or raises.  Nothing obliges the user to start a turn.
TurnStep ==
    \/ StreamRaises
    \/ \E r \in ToolResults : ExecutorReturns(r)
    \/ BeginGenerate
    \/ TrimStep
    \/ \E e \in ExecutorErrors : ExecutorRaises(e)
    \/ StreamEnds
    \/ \E token \in Tokens : NextToken(token)

FairSpec == Spec /\ WF_vars(TurnStep)

\* the turns of an orchestrator built with or without a logger
TraceSpec == TraceInit /\ [][Next]_vars

\* the default construction, with generate_and_intercept of
\* utils/streaming.py run next to the orchestrator's loop
LoopInit ==
    /\ Constructed
    /\ Alone
    /\ turn = 0
    /\ ~logger
    /\ probe = NoProbe
    /\ loop = [NoLoop EXCEPT !.on = TRUE]
    /\ detailed = NoDetail
    /\ client = NoClient

LoopSpec == LoopInit /\ [][Next]_vars

\* the default construction, every call made through
\* process_detailed_async
DetailInit ==
    /\ Constructed
    /\ Alone
    /\ turn = 0
    /\ ~logger
    /\ probe = NoProbe
    /\ loop = NoLoop
    /\ detailed = [NoDetail EXCEPT !.on = TRUE]
    /\ client = NoClient

DetailSpec == DetailInit /\ [][Next]_vars

\* ------------------------------------------------------------------------
\* A JikiClient used on its own: execute_tool_call invocations that
\* interleave at their awaits, next to initialize and the server's log
\* notifications
\* ------------------------------------------------------------------------
\* everything but the client
orchestratorVars ==
    <<messages, last_tool_calls, conversation_history, tiktoken, pc, turn,
      user_input, max_tokens_ctx, output_buffer, thought_found,
      tool_call_found, pending, outcome, returned, ncalls,
      executor_calls, trim_input, probe, logger, raw_conversation,
      events, complete_traces, saved, last_resume, root, other, running,
      shared, loop, detailed>>

ClientInit ==
    /\ Constructed
    /\ Alone
    /\ turn = 0
    /\ ~logger
    /\ probe = NoProbe
    /\ loop = NoLoop
    /\ detailed = NoDetail
    /\ client = NoClient

\* initialize(): the two handshake entries
Initialize ==
    /\ \A k \in 1..Len(client.interaction_traces) :
           "handshake" \notin client.interaction_traces[k].keys
    /\ client' = [client EXCEPT !.interaction_traces =
           @ \o << [TraceEntry({"handshake"}) EXCEPT
                       !.handshake = <<"initialize_sent">>],
                   [TraceEntry({"handshake"}) EXCEPT
                       !.handshake = <<"initialized_sent">>] >>]
    /\ UNCHANGED orchestratorVars

\* _on_mcp_notification: a log notification of the server
OnMcpNotification ==
    /\ \A k \in 1..Len(client.interaction_traces) :
           "log" \notin client.interaction_traces[k].keys
    /\ client' = [client EXCEPT !.interaction_traces =
           Append(@, [TraceEntry({"log"}) EXCEPT !.log = <<"info", "msg">>])]
    /\ UNCHANGED orchestratorVars

\* execute_tool_call up to its await: the entry of the call is appended
ExecuteToolCall(call) ==
    /\ Len(client.invocations) < MaxInvocations
    /\ client' = [client EXCEPT
           !.interaction_traces =
               Append(@, CallEntry(call.tool_name, call.arguments)),
           !.invocations =
               Append(@, Invocation(call, Len(client.interaction_traces) + 1))]
    /\ UNCHANGED orchestratorVars

\* client.call_tool returns to invocation i, which attaches the result
\* and returns it
CallToolReturns(i, raw_result_list) ==
    /\ client.invocations[i].pc = "awaiting"
    /\ LET inv == client.invocations[i]
           result_str == process_mcp_result(raw_result_list)
       IN  client' = [client EXCEPT
               !.interaction_traces =
                   ResultAttached(@, mcp_tool_call_log(inv.tool_name, inv.arguments),
                                  result_str),
               !.invocations[i] =
                   [@ EXCEPT !.pc = "done", !.outcome = "result",
                             !.returned = result_str]]
    /\ UNCHANGED orchestratorVars

\* the communication of invocation i fails: it attaches the error and
\* returns the error payload
CallToolRaises(i, e) ==
    /\ client.invocations[i].pc = "awaiting"
    /\ LET inv == client.invocations[i]
       IN  client' = [client EXCEPT
               !.interaction_traces =
                   ErrorAttached(@, mcp_tool_call_log(inv.tool_name, inv.arguments),
                                 inv.tool_name, e),
               !.invocations[i] =
                   [@ EXCEPT !.pc = "done", !.outcome = "error", !.error = e,
                             !.returned = ErrorPayloadJson(inv.tool_name, e)]]
    /\ UNCHANGED orchestratorVars

ClientNext ==
    \/ Initialize
    \/ OnMcpNotification
    \/ \E call \in ClientCalls : ExecuteToolCall(call)
    \/ \E i \in 1..Len(client.invocations) :
           \E raw_result_list \in RawResults : CallToolReturns(i, raw_result_list)
    \/ \E i \in 1..Len(client.invocations) :
           \E e \in CallErrors : CallToolRaises(i, e)

ClientSpec == ClientInit /\ [][ClientNext]_vars

\* ------------------------------------------------------------------------
\* Two calls in one event loop
\* ------------------------------------------------------------------------
\* every orchestrator shares the list of this field with every other one
SameListClassLevel(field, same_orchestrator) ==
    same_orchestrator \/ field = "conversation_history"

\* the two calls work on the same list object for this field: __init__
\* binds a new list to each field of each orchestrator
SameList(field, same_orchestrator) == same_orchestrator

\* the coroutine of the running call: its locals and its position, with
\* what its caller, its model and its executor have done so far
Coroutine ==
    [pc |-> pc, turn |-> turn, user_input |-> user_input,
     output_buffer |-> output_buffer, thought_found |-> thought_found,
     tool_call_found |-> tool_call_found, pending |-> pending,
     outcome |-> outcome, returned |-> returned, ncalls |-> ncalls,
     executor_calls |-> executor_calls, trim_input |-> trim_input,
     raw_conversation |-> raw_conversation]

\* the lists of the orchestrator of the running call that the suspended
\* call does not see
OwnLists ==
    [messages |-> IF SameList("messages", shared) THEN <<>> ELSE messages,
     last_tool_calls |->
         IF SameList("last_tool_calls", shared) THEN <<>> ELSE last_tool_calls,
     conversation_history |->
         IF SameList("conversation_history", shared)
         THEN <<>> ELSE conversation_history]

\* a call that has not been made yet, on an orchestrator as __init__
\* leaves it; n tells what its model will stream
CallNotMade(t, n) ==
    [pc |-> "idle", turn |-> t, user_input |-> "", output_buffer |-> <<>>,
     thought_found |-> FALSE, tool_call_found |-> FALSE, pending |-> NoPending,
     outcome |-> "none", returned |-> <<>>, ncalls |-> n,
     executor_calls |-> <<>>, trim_input |-> <<>>, raw_conversation |-> <<>>,
     lists |-> [messages |-> <<>>, last_tool_calls |-> <<>>,
                conversation_history |-> <<>>]]

\* the two callers each make the last call of the user's script, on one
\* orchestrator or on two; the budget is the small one and the model of the
\* second call answers without calling a tool
ConcInit ==
    /\ Constructed
    /\ turn = MaxTurns - 1
    /\ tiktoken
    /\ max_tokens_ctx = MinOf(Budgets)
    /\ ~logger
    /\ probe = NoProbe
    /\ saved = NoSnapshot
    /\ last_resume = NoResume
    /\ root = NoRoot
    /\ other = CallNotMade(MaxTurns - 1, MaxCalls)
    /\ running = 1
    /\ shared \in BOOLEAN
    /\ Plain

\* the running call is suspended at an await, or is over or not made, and
\* the event loop runs the other one
Switch ==
    /\ other.pc # "absent"
    /\ pc \in {"idle", "streaming", "executing"}
    /\ running' = 3 - running
    /\ other' = [Coroutine EXCEPT !.pc = pc] @@ [lists |-> OwnLists]
    /\ pc' = other.pc
    /\ turn' = other.turn
    /\ user_input' = other.user_input
    /\ output_buffer' = other.output_buffer
    /\ thought_found' = other.thought_found
    /\ tool_call_found' = other.tool_call_found
    /\ pending' = other.pending
    /\ outcome' = other.outcome
    /\ returned' = other.returned
    /\ ncalls' = other.ncalls
    /\ executor_calls' = other.executor_calls
    /\ trim_input' = other.trim_input
    /\ raw_conversation' = other.raw_conversation
    /\ messages' = IF SameList("messages", shared)
                   THEN messages ELSE other.lists.messages
    /\ last_tool_calls' = IF SameList("last_tool_calls", shared)
                          THEN last_tool_calls ELSE other.lists.last_tool_calls
    /\ conversation_history' =
           IF SameList("conversation_history", shared)
           THEN conversation_history ELSE other.lists.conversation_history
    /\ UNCHANGED <<client, loop, detailed,
                   rootVars, shared, tiktoken, max_tokens_ctx, probe, logger,
                   events, complete_traces>>

ConcNext ==
    \/ Next
    \/ Switch

\* two calls interleaved at their awaits
ConcSpec == ConcInit /\ [][ConcNext]_vars

\* ------------------------------------------------------------------------
\* The conversation root manager between turns
\* ------------------------------------------------------------------------
\* container types a caller may put in a snapshot dict
ContainerTypes == {"list", "dict"}

\* the field as it is, or a value of another type in its place
Retyped(field, t) == IF t = "list" THEN field ELSE PyOther(t)

\* the dicts a caller may hand to resume: the snapshot it holds, whole or
\* with fields of the wrong type
Candidates(dict) ==
    { [messages |-> Retyped(dict.messages, t1),
       tool_call_records |-> Retyped(dict.tool_call_records, t2)] :
          t1 \in ContainerTypes, t2 \in ContainerTypes }

\* the caller takes a snapshot between two turns
Snapshot ==
    /\ pc = "idle"
    /\ ~saved.held
    /\ saved' = [held |-> TRUE, dict |-> snapshot(messages, last_tool_calls)]
    /\ root' = [root EXCEPT !.turn = turn, !.direct = TRUE]
    /\ UNCHANGED <<client, loop, detailed,
                   concVars, last_resume, messages, last_tool_calls,
                   conversation_history, tiktoken, pc, turn, user_input,
                   max_tokens_ctx, output_buffer, thought_found,
                   tool_call_found, pending, outcome, returned, ncalls,
                   executor_calls, trim_input, probe, logger,
                   raw_conversation, events, complete_traces>>

\* the caller goes on with a newly constructed orchestrator
NewOrchestrator ==
    /\ pc = "idle"
    /\ saved.held
    /\ messages # <<>>
    /\ messages' = <<>>
    /\ last_tool_calls' = <<>>
    /\ conversation_history' = <<>>
    /\ outcome' = "none"
    /\ returned' = <<>>
    /\ root' = [root EXCEPT !.direct = FALSE]
    /\ UNCHANGED <<client, loop, detailed,
                   concVars, saved, last_resume, tiktoken, pc, turn, user_input,
                   max_tokens_ctx, output_buffer, thought_found,
                   tool_call_found, pending, ncalls, executor_calls,
                   trim_input, probe, logger, raw_conversation, events,
                   complete_traces>>

\* the caller hands a dict to resume
Resume(snap) ==
    /\ pc = "idle"
    /\ saved.held
    /\ root.resumes < MaxResumes
    /\ snap \in Candidates(saved.dict)
    /\ LET r == resume(messages, last_tool_calls, snap)
       IN  /\ messages' = r.messages
           /\ last_tool_calls' = r.records
           /\ last_resume' = [called |-> TRUE, snapshot |-> snap, error |-> r.error]
           /\ root' = IF r.error = "none"
                      THEN [turn |-> turn, direct |-> TRUE,
                            resumes |-> root.resumes + 1]
                      ELSE [root EXCEPT !.resumes = @ + 1]
    /\ UNCHANGED <<client, loop, detailed,
                   concVars, saved, conversation_history, tiktoken, pc, turn,
                   user_input,
                   max_tokens_ctx, output_buffer, thought_found,
                   tool_call_found, pending, outcome, returned, ncalls,
                   executor_calls, trim_input, probe, logger,
                   raw_conversation, events, complete_traces>>

RootNext ==
    \/ Next
    \/ Snapshot
    \/ NewOrchestrator
    \/ \E snap \in Candidates(saved.dict) : Resume(snap)

\* the root manager is exercised with the exact token counter, the small
\* budget and the last two inputs of the user's script
RootInit ==
    /\ Constructed
    /\ Alone
    /\ Plain
    /\ turn = MaxTurns - 2
    /\ ~logger
    /\ probe = NoProbe
    /\ tiktoken
    /\ max_tokens_ctx = MinOf(Budgets)

\* turns with snapshots taken and resumed between them
RootSpec == RootInit /\ [][RootNext]_vars

\* ------------------------------------------------------------------------
\* The utility functions called on their own, as the unit tests call them
\* ------------------------------------------------------------------------
\* chunks a scanned buffer is made of: the two delimiters and other text
ScanSymbols == {"CO", "CC", "txt"}

\* chunks a payload text is made of
ParseSymbols == PayloadIds \cup {"lb", "rb", "txt", "sp"}

RECURSIVE SeqsUpTo(_, _)
\* the sequences over S of length at most n
SeqsUpTo(S, n) ==
    IF n = 0 THEN {<<>>}
    ELSE LET shorter == SeqsUpTo(S, n - 1)
         IN  shorter \cup {Append(t, x) : t \in {u \in shorter : Len(u) = n - 1},
                                          x \in S}

PayloadTexts == SeqsUpTo(ParseSymbols, MaxChunks)

\* the types a schema may declare for an argument ("string|null" stands for
\* the list ["string", "null"]) and the Python types of the JSON values
DeclaredTypes ==
    {"integer", "number", "string", "boolean", "array", "object", "null",
     "string|null"}

PyTypes == {"int", "float", "str", "bool", "list", "dict", "NoneType"}

\* the argument schemas, argument dictionaries and required lists the
\* validator is called with
ExpectedArgs ==
    {<<ArgSchema("x", T), ArgSchema("y", "integer")>> : T \in DeclaredTypes}

ArgumentDicts ==
    {<<>>}
      \cup {<<Arg(k, t)>> : k \in {"x", "y"}, t \in PyTypes}
      \cup {<<Arg("x", t), Arg("y", u)>> : t \in PyTypes, u \in {"int", "str"}}

RequiredLists == {<<>>, <<"x">>, <<"y">>, <<"x", "y">>}

ValidatorInputs ==
    [arguments : ArgumentDicts, expected_args : ExpectedArgs,
     required_args : RequiredLists]

\* the pieces a final buffer is made of: words, line ends, delimiters,
\* halves of a delimiter and whole blocks
CleanPieces ==
    { <<"txt">>, <<"nl">>, <<"CO">>, <<"COa">>, <<"COb">>, <<"CC">>, <<"TO">>,
      <<"TO", "txt", "TC">>, <<"RO", "txt", "RC">>, <<"AO", "txt", "AC">> }

\* the final buffers made of at most n pieces
FinalBuffers(n) == {Flatten(ps) : ps \in SeqsUpTo(CleanPieces, n)}

\* the exception classes the executor may raise, as the word fragments of
\* their names
ErrorTypes ==
    { <<"Connection", "Error">>, <<"Connection", "Refused", "Error">>,
      <<"Connection", "Reset", "Error">>, <<"Broken", "Pipe", "Error">>,
      <<"Timeout", "Error">>, <<"Value", "Error">>, <<"Key", "Error">>,
      <<"Type", "Error">>, <<"Runtime", "Error">>, <<"Exception">> }

Probe(fn, input) == [fn |-> fn, input |-> input, done |-> FALSE, out |-> <<>>]

\* the utility functions read nothing of the orchestrator: one construction
\* stands for all
PureInit ==
    /\ Constructed
    /\ Alone
    /\ Plain
    /\ turn = 0
    /\ tiktoken
    /\ ~logger
    /\ max_tokens_ctx = MaxOf(Budgets)
    /\ probe \in {[Probe("scan", <<>>) EXCEPT !.out = None]}
                   \cup {Probe("parse", t) : t \in PayloadTexts}
                   \cup {Probe("handle", t) : t \in PayloadTexts}
                   \cup {Probe("validate", i) : i \in ValidatorInputs}
                   \cup {Probe("clean", t) : t \in FinalBuffers(MaxLen)}
                   \cup {Probe("categorize", [tool |-> n, error_type |-> e]) :
                            n \in ConfiguredNames, e \in ErrorTypes}

Untouched ==
    UNCHANGED <<rootVars, concVars, client, loop, detailed,
                messages, last_tool_calls, conversation_history, tiktoken, pc,
                turn, user_input, max_tokens_ctx, output_buffer, thought_found,
                tool_call_found, pending, outcome, returned, ncalls,
                executor_calls, trim_input, logger, raw_conversation,
                events, complete_traces>>

\* one more chunk arrives and the whole buffer is scanned again
ScanToken(sym) ==
    /\ probe.fn = "scan"
    /\ Len(probe.input) < MaxLen
    /\ probe' = [probe EXCEPT
                   !.input = Append(@, sym),
                   !.done = TRUE,
                   !.out = extract_tool_call_if_present(Append(probe.input, sym))]
    /\ Untouched

ParseCall ==
    /\ probe.fn = "parse"
    /\ ~probe.done
    /\ probe' = [probe EXCEPT !.done = TRUE, !.out = repair_json(probe.input)]
    /\ Untouched

HandleCall ==
    /\ probe.fn = "handle"
    /\ ~probe.done
    /\ probe' = [probe EXCEPT !.done = TRUE,
                              !.out = handle_tool_call(probe.input)]
    /\ Untouched

ValidateCall ==
    /\ probe.fn = "validate"
    /\ ~probe.done
    /\ probe' = [probe EXCEPT
                   !.done = TRUE,
                   !.out = validate_tool_arguments(probe.input.arguments,
                                                   probe.input.expected_args,
                                                   probe.input.required_args)]
    /\ Untouched

CleanCall ==
    /\ probe.fn = "clean"
    /\ ~probe.done
    /\ probe' = [probe EXCEPT !.done = TRUE, !.out = clean_output(probe.input)]
    /\ Untouched

\* the except branch of the handler: the error is categorized and the
\* result text built
CategorizeCall ==
    /\ probe.fn = "categorize"
    /\ ~probe.done
    /\ probe' = [probe EXCEPT
                   !.done = TRUE,
                   !.out = ExecutionError(probe.input.tool,
                                          probe.input.error_type)]
    /\ Untouched

PureNext ==
    \/ \E sym \in ScanSymbols : ScanToken(sym)
    \/ ParseCall
    \/ HandleCall
    \/ ValidateCall
    \/ CleanCall
    \/ CategorizeCall

PureSpec == PureInit /\ [][PureNext]_vars

\* ------------------------------------------------------------------------
\* Vocabulary of the properties
\* ------------------------------------------------------------------------

\* the payload parses, names a configured tool and has no missing and no
\* mistyped argument
PayloadParses(content) ==
    repair_json(content).method \in {"direct", "extracted", "repaired"}

PayloadValid(content) ==
    LET tc == repair_json(content).tool_call
        sc == FindSchema(ToolName(tc)).schema
        v  == validate_tool_arguments(Arguments(tc), sc.arguments, RequiredArgs(sc))
    IN  /\ PayloadParses(content)
        /\ ToolName(tc) \in ConfiguredNames
        /\ v.missing_args = <<>>
        /\ v.type_mismatches = <<>>

\* this step intercepts a tool-call block
Intercepts == pc = "streaming" /\ ncalls' = ncalls + 1

\* the buffered output of the pass at the token that completed the block
\* intercepted by this step
InterceptedOutput ==
    IF pc' = "executing" THEN Flatten(output_buffer')
    ELSE messages'[Len(messages') - 1].content

\* the payload of the block intercepted by this step
InterceptedPayload == extract_tool_call_if_present(InterceptedOutput).content

\* this step ends a tool round-trip: a diagnostic was returned at once, or
\* the awaited executor call has come back
RoundTripEnds ==
    \/ Intercepts /\ pc' = "streaming"
    \/ pc = "executing" /\ pc' # "executing"

\* the buffered output of the pass the round-trip of this step interrupted
InterceptedOutputOfTrip ==
    IF pc = "executing" THEN Flatten(output_buffer) ELSE InterceptedOutput

\* text is wrapped as <mcp_tool_result>\n...\n</mcp_tool_result>
IsResultBlock(text) ==
    /\ Len(text) >= 4
    /\ SubSeq(text, 1, 2) = <<"RO", "nl">>
    /\ SubSeq(text, Len(text) - 1, Len(text)) = <<"nl", "RC">>

InnerOfResultBlock(text) == SubSeq(text, 3, Len(text) - 2)

\* text is one of the diagnostics of the handler
IsDiagnostic(text) ==
    /\ text # <<>>
    /\ text[1] \in {"ERROR: Invalid tool call.", "ERROR: Tool",
                    "ERROR: Invalid arguments for tool", "ERROR ("}

\* the calls the executor received during turn t
CallsOfTurn(t) == SelectSeq(executor_calls, LAMBDA c : c.turn = t)

ReturnedCallsOfTurn(t) ==
    SelectSeq(executor_calls, LAMBDA c : c.turn = t /\ c.outcome = "returned")

\* the bootstrap message of the first turn
Bootstrap == Message("system", build_initial_prompt(UserScript[1]))

IsBootstrap(m) ==
    m.role = "system" /\ Contains(m.content, <<"INSTRUCTIONS">>)
                      /\ Contains(m.content, create_available_tools_block)

DiagnosticInjected ==
    /\ pc' = "streaming"
    /\ turn' = turn
    /\ outcome' = "none"
    /\ output_buffer' = <<>>
    /\ Len(messages') = Len(messages) + 2
    /\ IsResultBlock(messages'[Len(messages')].content)
    /\ IsDiagnostic(InnerOfResultBlock(messages'[Len(messages')].content))

C2_NoCycleFailure ==
    [][ /\ (Intercepts /\ ~PayloadValid(InterceptedPayload)) => DiagnosticInjected
        /\ (pc = "executing" /\ executor_calls'[Len(executor_calls')].outcome = "raised")
               => DiagnosticInjected
        /\ (outcome' = "raised" /\ outcome # "raised")
               => (pc = "streaming" /\ ~Intercepts /\ messages' = messages)
      ]_vars

\* the executor has raised and the loop streams again
C2_Witness ==
    /\ pc = "streaming"
    /\ executor_calls # <<>>
    /\ executor_calls[Len(executor_calls)].outcome = "raised"
    /\ output_buffer = <<>>
    /\ IsDiagnostic(InnerOfResultBlock(messages[Len(messages)].content))

C4_BootstrapStays ==
    turn >= 1 => (messages # <<>> /\ messages[1] = Bootstrap)

\* a later turn whose trimming has evicted messages
C4_Witness ==
    /\ turn = 2
    /\ pc = "trimming"
    /\ Len(messages) < Len(trim_input)
    /\ messages[1] = Bootstrap

\* ------------------------------------------------------------------------
\* C5: trimming terminates; it removes a message only while the count
\* exceeds the budget and more than 2 messages remain; when it returns the
\* count is at most the budget or at most 2 messages remain.
\* ------------------------------------------------------------------------
TrimTerminates == (pc = "trimming") ~> (pc # "trimming")

RemovesOnlyWhileOver ==
    Len(messages') < Len(messages) =>
        /\ pc = "trimming"
        /\ num_tokens(messages) > max_tokens_ctx
        /\ Len(messages) > 2
        /\ Len(messages') = Len(messages) - 1

TrimReturns == pc = "trimming" /\ pc' # "trimming"

C5_TrimStopsAtBudgetOrTwo ==
    /\ TrimTerminates
    /\ [][ /\ RemovesOnlyWhileOver
           /\ TrimReturns =>
                  \/ num_tokens(messages') <= max_tokens_ctx
                  \/ Len(messages') <= 2 ]_vars

\* the claim as written: exactly 2 messages remain
C5_AsWritten ==
    /\ TrimTerminates
    /\ [][ /\ RemovesOnlyWhileOver
           /\ TrimReturns =>
                  \/ num_tokens(messages') <= max_tokens_ctx
                  \/ Len(messages') = 2 ]_vars

\* trimming has evicted messages and stops within the budget with more
\* than 2 messages left
C5_Witness ==
    /\ pc = "trimming"
    /\ Len(messages) < Len(trim_input)
    /\ Len(messages) > 2
    /\ num_tokens(messages) <= max_tokens_ctx

\* ------------------------------------------------------------------------
\* C6: throughout a trim the context is message 0 followed by a contiguous
\* suffix of the messages 1..n-1 the trim started from, in their order.
\* ------------------------------------------------------------------------
C6_TrimIsFifo ==
    pc = "trimming" =>
        \E k \in 2..(Len(trim_input) + 1) :
            messages = <<trim_input[1]>> \o SubSeq(trim_input, k, Len(trim_input))

\* two messages evicted, an older part gone and a newer part kept
C6_Witness ==
    /\ pc = "trimming"
    /\ Len(trim_input) - Len(messages) >= 2
    /\ Len(messages) >= 3
    /\ ~TrimCondition(messages, max_tokens_ctx)

\* ------------------------------------------------------------------------
\* C7: the first turn initialises the context with one system message
\* built from the instructions, the tool list and the first input; every
\* later turn appends one user message carrying its input; the context
\* holds exactly one bootstrap message.
\* ------------------------------------------------------------------------
C7_BootstrapOnce ==
    /\ [][ turn' = turn + 1 =>
              IF turn = 0
              THEN /\ Len(messages') = 1
                   /\ IsBootstrap(messages'[1])
                   /\ Contains(messages'[1].content, <<"User:", user_input'>>)
              ELSE messages' = Append(messages, Message("user", <<user_input'>>))
         ]_vars
    /\ [](turn >= 1 =>
              Cardinality({i \in 1..Len(messages) : IsBootstrap(messages[i])}) = 1)

\* the second turn has appended its user message
C7_Witness ==
    /\ turn = 2
    /\ pc = "trimming"
    /\ messages[Len(messages)] = Message("user", <<UserScript[2]>>)
    /\ IsBootstrap(messages[1])

\* ------------------------------------------------------------------------
\* C8: after a turn in which the executor was invoked k times the record
\* list holds k records, in invocation order, whether the executor returned
\* or raised.
\* ------------------------------------------------------------------------
C8_EveryAttemptRecorded ==
    (pc = "idle" /\ outcome = "returned") =>
        /\ Len(last_tool_calls) = Len(CallsOfTurn(turn))
        /\ \A i \in 1..Len(last_tool_calls) :
               /\ last_tool_calls[i].tool = CallsOfTurn(turn)[i].tool
               /\ last_tool_calls[i].arguments = CallsOfTurn(turn)[i].arguments

\* ------------------------------------------------------------------------
\* C9: the record list is emptied when a turn starts and holds, at every
\* moment, records of calls of the current turn only: the calls of this
\* turn that returned, in order.
\* ------------------------------------------------------------------------
C9_RecordsArePerTurn ==
    /\ [][turn' = turn + 1 => last_tool_calls' = <<>>]_vars
    /\ [](/\ Len(last_tool_calls) = Len(ReturnedCallsOfTurn(turn))
          /\ \A i \in 1..Len(last_tool_calls) :
                 /\ last_tool_calls[i].tool = ReturnedCallsOfTurn(turn)[i].tool
                 /\ last_tool_calls[i].arguments = ReturnedCallsOfTurn(turn)[i].arguments)

\* the second turn has ended with one record although the first turn had
\* recorded a call too
C9_Witness ==
    /\ turn = 2
    /\ pc = "idle"
    /\ outcome = "returned"
    /\ Len(last_tool_calls) = 1
    /\ Len(ReturnedCallsOfTurn(1)) = 1

\* ------------------------------------------------------------------------
\* C10: a call returns only when its token stream is exhausted with no
\* tool-call block intercepted in the pass, and a pass that ends so returns
\* the cleaned output; a new pass starts within a turn only after an
\* interception; a turn in progress whose token streams do not raise
\* returns.
\* ------------------------------------------------------------------------
C10_TurnCompletes ==
    /\ [][ /\ (outcome' = "returned" /\ outcome # "returned") =>
                  /\ pc = "streaming"
                  /\ ~tool_call_found
                  /\ MayEnd(output_buffer, ncalls)
                  /\ ~Truthy(extract_tool_call_if_present(Flatten(output_buffer)))
           /\ (pc = "streaming" /\ pc' = "idle" /\ outcome' # "raised") =>
                  /\ outcome' = "returned"
                  /\ returned' = clean_output(Flatten(output_buffer))
           /\ (pc \in {"streaming", "executing"} /\ pc' = "streaming"
                  /\ output_buffer' = <<>>) =>
                  (pc = "executing" \/ Intercepts)
         ]_vars
    /\ ([](outcome # "raised") =>
            ((pc # "idle") ~> (pc = "idle" /\ outcome = "returned")))

\* a first turn that made two tool round-trips has returned
C10_Witness ==
    /\ turn = 1
    /\ ncalls = 2
    /\ pc = "idle"
    /\ outcome = "returned"

\* ------------------------------------------------------------------------
\* C11: the tag scanner reports "not found" for every buffer in which no
\* opening delimiter is followed by a closing delimiter; otherwise it
\* returns exactly the text between the first opening delimiter and the
\* first closing delimiter after it, and appending further chunks to the
\* buffer does not change the text it returns.
\* ------------------------------------------------------------------------
HasCompleteBlock(text) ==
    \E i, j \in 1..Len(text) : i < j /\ text[i] = "CO" /\ text[j] = "CC"

FirstBlockContent(text) ==
    LET i == MinOf(Positions(text, "CO"))
        j == MinOf({k \in Positions(text, "CC") : k > i})
    IN  SubSeq(text, i + 1, j - 1)

ScanExact ==
    probe.fn = "scan" =>
        IF HasCompleteBlock(probe.input)
        THEN probe.out.found /\ probe.out.content = FirstBlockContent(probe.input)
        ELSE ~probe.out.found

ScanStable ==
    (probe.fn = "scan" /\ probe.out.found) => probe'.out = probe.out

C11_ScannerFindsFirstBlock == []ScanExact /\ [][ScanStable]_vars

\* a block was found and two more chunks, a second closing delimiter among
\* them, were appended after it
C11_Witness ==
    /\ probe.fn = "scan"
    /\ probe.input = <<"CO", "txt", "CC", "CC">>
    /\ probe.out.found
    /\ probe.out.content = <<"txt">>

\* ------------------------------------------------------------------------
\* C12: whenever the buffer of a generation pass comes to contain a complete
\* tool-call block the loop intercepts it at the token that completes it:
\* the loop is never found still consuming the stream with a complete block
\* in its buffer.
\* ------------------------------------------------------------------------
C12_CompleteBlockIntercepted ==
    pc = "streaming" => ~HasCompleteBlock(Flatten(output_buffer))

\* ------------------------------------------------------------------------
\* C13: the executor is awaited only for a block whose closing delimiter
\* has arrived with the last token read; when a round-trip ends its result
\* is the last message of the context and no token of the next pass has
\* been read; no step reorders the context or the conversation log, so the
\* (assistant, result) pair of an earlier call stands before the pair of a
\* later one.
\* ------------------------------------------------------------------------
DispatchedAfterClose ==
    pc = "executing" =>
        /\ output_buffer # <<>>
        /\ HasCompleteBlock(Flatten(output_buffer))
        /\ ~HasCompleteBlock(Flatten(SubSeq(output_buffer, 1,
                                            Len(output_buffer) - 1)))
        /\ pending.tool =
               ToolName(repair_json(FirstBlockContent(Flatten(output_buffer)))
                            .tool_call)

ResultBeforeNextPass ==
    RoundTripEnds =>
        /\ pc' = "streaming"
        /\ output_buffer' = <<>>
        /\ messages'[Len(messages') - 1].role = "assistant"
        /\ HasCompleteBlock(messages'[Len(messages') - 1].content)
        /\ messages'[Len(messages')].role = "system"
        /\ IsResultBlock(messages'[Len(messages')].content)

\* new is old with messages appended, or old with one message removed
Appended(old, new) ==
    Len(new) >= Len(old) /\ SubSeq(new, 1, Len(old)) = old

Removed(old, new) ==
    \E i \in 1..Len(old) :
        new = SubSeq(old, 1, i - 1) \o SubSeq(old, i + 1, Len(old))

OrderKept ==
    /\ Appended(messages, messages') \/ Removed(messages, messages')
    /\ Appended(conversation_history, conversation_history')

C13_OrderedByDetection ==
    []DispatchedAfterClose /\ [][ResultBeforeNextPass /\ OrderKept]_vars

\* two round-trips in the first turn: the pair of the rejected call of an
\* unknown tool stands before the pair of the call of add
C13_Witness ==
    /\ turn = 1
    /\ pc = "streaming"
    /\ ncalls = 2
    /\ Len(messages) = 5
    /\ extract_tool_call_if_present(messages[2].content).content = <<"p_unknown">>
    /\ IsDiagnostic(InnerOfResultBlock(messages[3].content))
    /\ extract_tool_call_if_present(messages[4].content).content = <<"p_add">>
    /\ InnerOfResultBlock(messages[5].content) \in {<<r>> : r \in ToolResults}

\* ------------------------------------------------------------------------
\* C14: the payload parser tries its strategies in a fixed order and stops
\* at the first success: "direct" if and only if the whole input parses;
\* "extracted" only if that failed and the text from the first '{' to the
\* last '}' parses; "repaired" only if both failed and the repaired
\* substring parses; otherwise "failed" when a brace pair exists and
\* "no_json_found" when none does, with an empty object returned.
\* ------------------------------------------------------------------------
\* a '{' stands before a '}' in the text
HasBracePair(text) ==
    \E i \in OpenPositions(text) : \E j \in ClosePositions(text) : i <= j

\* the text from the first '{' to the last '}'
BraceSubstring(text) ==
    SubSeq(text, MinOf(OpenPositions(text)), MaxOf(ClosePositions(text)))

ParsedProbe == probe.fn = "parse" /\ probe.done

C14_StrategiesInOrder ==
    ParsedProbe =>
        LET text   == probe.input
            method == probe.out.method
            whole  == JsonLoads(text).ok
            pair   == HasBracePair(text)
            sub    == pair /\ JsonLoads(BraceSubstring(text)).ok
            fixed  == pair /\ RepairLoads(BraceSubstring(text)).ok
        IN  /\ method \in {"direct", "extracted", "repaired", "failed",
                           "no_json_found"}
            /\ (method = "direct") = whole
            /\ (method = "extracted") = (~whole /\ sub)
            /\ (method = "repaired") = (~whole /\ ~sub /\ fixed)
            /\ (method = "failed") = (~whole /\ pair /\ ~sub /\ ~fixed)
            /\ (method = "no_json_found") = (~whole /\ ~pair)
            /\ (method = "direct") => probe.out.tool_call = JsonLoads(text).val
            /\ (method = "extracted") =>
                   probe.out.tool_call = JsonLoads(BraceSubstring(text)).val
            /\ (method = "repaired") =>
                   probe.out.tool_call = RepairLoads(BraceSubstring(text)).val
            /\ (method \in {"failed", "no_json_found"}) =>
                   probe.out.tool_call = EmptyDict

\* an object between two words goes the extracted route
C14_Witness ==
    /\ ParsedProbe
    /\ probe.input = <<"txt", "p_add">>
    /\ probe.out.method = "extracted"
    /\ probe.out.tool_call.tool_name = "add"

NonObjectArguments(content) ==
    /\ PayloadParses(content)
    /\ repair_json(content).tool_call.is_dict
    /\ repair_json(content).tool_call.args_kind \in {"array", "scalar"}

C16_NonObjectArgumentsRejected ==
    [][ (Intercepts /\ NonObjectArguments(InterceptedPayload)) =>
            /\ executor_calls' = executor_calls
            /\ DiagnosticInjected
      ]_vars

\* ------------------------------------------------------------------------
\* C17: a call naming a tool that is not configured is rejected without a
\* call of the executor, and the injected error lists the names of all
\* configured tools, comma-separated, in configuration order.
\* ------------------------------------------------------------------------
NamesUnknownTool(content) ==
    /\ PayloadParses(content)
    /\ ToolName(repair_json(content).tool_call) # ""
    /\ ToolName(repair_json(content).tool_call) \notin ConfiguredNames

InjectedResult == InnerOfResultBlock(messages'[Len(messages')].content)

C17_UnknownToolListsNames ==
    [][ (Intercepts /\ NamesUnknownTool(InterceptedPayload)) =>
            /\ executor_calls' = executor_calls
            /\ pc' = "streaming"
            /\ IsResultBlock(messages'[Len(messages')].content)
            /\ Contains(InjectedResult,
                        <<"ERROR: Tool",
                          ToolName(repair_json(InterceptedPayload).tool_call)>>)
            /\ Contains(InjectedResult, <<"add", ",", "search">>)
            /\ \E k \in 1..Len(InjectedResult) :
                   SubSeq(InjectedResult, k, Len(InjectedResult))
                       = <<"add", ",", "search", ",", "echo">>
      ]_vars

\* the call of the tool "unknown" was answered with the list of the tools,
\* and the executor has not been called
C17_Witness ==
    /\ pc = "streaming"
    /\ ncalls = 1
    /\ executor_calls = <<>>
    /\ Len(messages) = 3
    /\ extract_tool_call_if_present(messages[2].content).content = <<"p_unknown">>
    /\ Contains(messages[3].content, <<"add", ",", "search", ",", "echo">>)

\* ------------------------------------------------------------------------
\* C18: the required-argument check uses the schema's required set and,
\* when the schema has none, every key the argument schema declares: a call
\* that omits such a key is rejected and the error names each missing key.
\* ------------------------------------------------------------------------
HandledProbe == probe.fn = "handle" /\ probe.done

\* the keys the call must supply
RequiredKeys(schema) ==
    IF schema.has_required
    THEN schema.required
    ELSE [i \in 1..Len(schema.arguments) |-> schema.arguments[i].k]

C18_RequiredDefaultsToDeclared ==
    HandledProbe =>
        LET tc      == repair_json(probe.input).tool_call
            found   == FindSchema(ToolName(tc))
            missing == SelectSeq(RequiredKeys(found.schema),
                                 LAMBDA k : k \notin Keys(Arguments(tc)))
        IN  (PayloadParses(probe.input) /\ found.found /\ missing # <<>>) =>
                /\ ~probe.out.execute
                /\ Contains(probe.out.result,
                            <<"Missing required arguments:">>
                                \o Join([i \in 1..Len(missing) |-> <<missing[i]>>],
                                        ","))

\* ------------------------------------------------------------------------
\* JSON types of the values and of the schemas
\* ------------------------------------------------------------------------
\* the JSON type of a value of Python type t
JsonType(t) ==
    CASE t = "int"      -> "integer"
      [] t = "float"    -> "number"
      [] t = "str"      -> "string"
      [] t = "bool"     -> "boolean"
      [] t = "list"     -> "array"
      [] t = "dict"     -> "object"
      [] t = "NoneType" -> "null"

\* the types a declared type accepts
Members(declared) ==
    IF declared = "string|null" THEN {"string", "null"} ELSE {declared}

\* a JSON integer is also a JSON number
Compatible(declared, t) ==
    \/ JsonType(t) \in Members(declared)
    \/ "number" \in Members(declared) /\ JsonType(t) = "integer"

ValidatedProbe == probe.fn = "validate" /\ probe.done

\* the supplied arguments named in keys have values of their declared types
WellTyped(arguments, expected_args, keys) ==
    \A i \in 1..Len(arguments) :
        (arguments[i].k \in keys /\ arguments[i].k \in Keys(expected_args)) =>
            Compatible(ExpectedType(expected_args, arguments[i].k),
                       arguments[i].t)

SetOf(seq) == {seq[i] : i \in 1..Len(seq)}

\* ------------------------------------------------------------------------
\* C19: if the arguments hold every required key and every supplied
\* argument the schema declares has a value of its declared type, the
\* validator reports no missing argument and no type mismatch; if a
\* required key is absent it reports exactly the absent required keys.
\* ------------------------------------------------------------------------
C19_ValidatorSound ==
    ValidatedProbe =>
        LET arguments == probe.input.arguments
            expected  == probe.input.expected_args
            required  == SetOf(probe.input.required_args)
            absent    == required \ Keys(arguments)
        IN  /\ (absent = {} /\ WellTyped(arguments, expected, Keys(expected))) =>
                   /\ probe.out.missing_args = <<>>
                   /\ probe.out.type_mismatches = <<>>
            /\ (absent # {}) =>
                   /\ SetOf(probe.out.missing_args) = absent
                   /\ Len(probe.out.missing_args) = Cardinality(absent)

\* C19 as the specification words it: the types of the required keys alone
\* decide that nothing is reported
C19_AsWritten ==
    ValidatedProbe =>
        LET arguments == probe.input.arguments
            expected  == probe.input.expected_args
            required  == SetOf(probe.input.required_args)
            absent    == required \ Keys(arguments)
        IN  /\ (absent = {} /\ WellTyped(arguments, expected, required)) =>
                   /\ probe.out.missing_args = <<>>
                   /\ probe.out.type_mismatches = <<>>
            /\ (absent # {}) =>
                   /\ SetOf(probe.out.missing_args) = absent
                   /\ Len(probe.out.missing_args) = Cardinality(absent)

\* both keys are required and only x is supplied, with a string where a
\* string is declared: y alone is reported missing
C19_Witness ==
    /\ ValidatedProbe
    /\ probe.input.required_args = <<"x", "y">>
    /\ probe.input.expected_args = <<ArgSchema("x", "string"), ArgSchema("y", "integer")>>
    /\ probe.input.arguments = <<Arg("x", "str")>>
    /\ probe.out.missing_args = <<"y">>
    /\ probe.out.type_mismatches = <<>>

\* ------------------------------------------------------------------------
\* C20: for every supplied argument whose schema declares a type among
\* string, number, integer, boolean, array, object, null or a union of
\* them, the validator reports a mismatch for that argument, with the
\* expected and the actual type, if and only if the JSON type of the value
\* is not compatible with the declared type.
\* ------------------------------------------------------------------------
C20_MismatchIffIncompatible ==
    ValidatedProbe =>
        \A i \in 1..Len(probe.input.arguments) :
            LET a        == probe.input.arguments[i]
                declared == ExpectedType(probe.input.expected_args, a.k)
                reported == \E j \in 1..Len(probe.out.type_mismatches) :
                                /\ probe.out.type_mismatches[j].k = a.k
                                /\ probe.out.type_mismatches[j].expected = declared
                                /\ probe.out.type_mismatches[j].got = a.t
            IN  reported = ~Compatible(declared, a.t)

\* ------------------------------------------------------------------------
\* C21: a failure of the executor is classified into exactly one category
\* of CONNECTION, TIMEOUT, VALUE, KEY, TYPE, GENERAL: connection-style
\* exceptions are CONNECTION, timeouts TIMEOUT, ValueError VALUE, KeyError
\* KEY, TypeError TYPE and every other exception GENERAL; the result text
\* starts with "ERROR (<CATEGORY>)" and names the tool.
\* ------------------------------------------------------------------------
\* ConnectionError and the built-in classes derived from it
ConnectionStyle ==
    { <<"Connection", "Error">>, <<"Connection", "Refused", "Error">>,
      <<"Connection", "Reset", "Error">>, <<"Broken", "Pipe", "Error">> }

CategoryOf(error_type) ==
    CASE error_type \in ConnectionStyle       -> "CONNECTION"
      [] error_type = <<"Timeout", "Error">>  -> "TIMEOUT"
      [] error_type = <<"Value", "Error">>    -> "VALUE"
      [] error_type = <<"Key", "Error">>      -> "KEY"
      [] error_type = <<"Type", "Error">>     -> "TYPE"
      [] OTHER                                -> "GENERAL"

C21_FailureClassified ==
    (probe.fn = "categorize" /\ probe.done) =>
        /\ Len(probe.out) >= 3
        /\ SubSeq(probe.out, 1, 3) =
               <<"ERROR (", CategoryOf(probe.input.error_type),
                 "): Failed to execute tool">>
        /\ Contains(probe.out, <<probe.input.tool>>)

\* ------------------------------------------------------------------------
\* C22: the text returned to the user holds no directive-block markup: for
\* every final buffer the cleaned output contains no complete tool-call,
\* tool-result, available-tools or thought block.
\* ------------------------------------------------------------------------
HasBlock(text, open, close) == BlockMatch(Fuse(text), open, close).found

C22_CleanedOutputHasNoBlock ==
    (probe.fn = "clean" /\ probe.done) =>
        /\ ~HasBlock(probe.out, "CO", "CC")
        /\ ~HasBlock(probe.out, "RO", "RC")
        /\ ~HasBlock(probe.out, "AO", "AC")
        /\ ~HasBlock(probe.out, "TO", "TC")

\* ------------------------------------------------------------------------
\* C23: every call that returns its answer adds exactly one record to the
\* logger's complete traces when a logger was given, and no step adds one
\* otherwise; the record is added when every tool result of the turn is in
\* the context, its conversation is the system prompt, the raw outputs and
\* result blocks of the turn in order and the raw final output, its events
\* hold the prompt that was sent, and it carries the cleaned answer.
\* ------------------------------------------------------------------------
\* the call returns its answer in this step
TurnCompletes == pc = "streaming" /\ pc' = "idle" /\ outcome' = "returned"

RECURSIVE LastUser(_)
\* the index of the last user message, 1 when the context holds none
LastUser(msgs) ==
    IF Len(msgs) <= 1 THEN 1
    ELSE IF msgs[Len(msgs)].role = "user" THEN Len(msgs)
         ELSE LastUser(SubSeq(msgs, 1, Len(msgs) - 1))

\* the outputs and result blocks appended since the input of the turn
TurnPairs(msgs) == SubSeq(msgs, LastUser(msgs) + 1, Len(msgs))

\* the context the turn started with
TurnPrompt(msgs) == SubSeq(msgs, 1, LastUser(msgs))

\* the tagged transcript of the turn that is about to return
TaggedTranscript ==
    <<Message("system", messages[1].content)>>
        \o TurnPairs(messages)
        \o <<Message("assistant", Flatten(output_buffer))>>

\* the answers logged so far, one for each call that returned
AnswersLogged ==
    SelectSeq(conversation_history, LAMBDA e : e.role = "assistant")

TraceRecordAdded ==
    /\ Len(complete_traces') = Len(complete_traces) + 1
    /\ SubSeq(complete_traces', 1, Len(complete_traces)) = complete_traces
    /\ LET rec == complete_traces'[Len(complete_traces')]
       IN  /\ rec.conversation = TaggedTranscript
           /\ rec.final_clean_output = returned'
           /\ \E i \in 1..Len(rec.events) :
                  rec.events[i] = Message("system", Str(TurnPrompt(messages)))
           /\ \A j \in 1..Len(messages) :
                  (j > LastUser(messages) /\ messages[j].role = "system") =>
                      \E i \in 1..Len(rec.events) : rec.events[i] = messages[j]

C23_OneTracePerCompletedTurn ==
    /\ [](IF logger THEN Len(complete_traces) = Len(AnswersLogged)
                    ELSE complete_traces = <<>>)
    /\ [][IF TurnCompletes /\ logger
          THEN pending = NoPending /\ TraceRecordAdded
          ELSE complete_traces' = complete_traces]_vars

\* a turn with a tool round-trip and a thought in its final output has
\* returned, and the logger holds its record
C23_Witness ==
    /\ logger
    /\ pc = "idle"
    /\ outcome = "returned"
    /\ Len(complete_traces) = 1
    /\ Len(complete_traces[1].conversation) >= 4
    /\ complete_traces[1].conversation[Len(complete_traces[1].conversation)].content
           # complete_traces[1].final_clean_output

\* ------------------------------------------------------------------------
\* C24: without a logger nothing of a turn is lost: the prompt that is
\* sent, the thought that is seen, the raw response of every pass, every
\* injected tool result and the final answer are each in
\* conversation_history once the step that produces them is done.
\* ------------------------------------------------------------------------
\* conversation_history holds an event with this content after the step
Kept(content) ==
    \E i \in 1..Len(conversation_history') :
        conversation_history'[i].content = content

PromptSent == pc = "trimming" /\ pc' = "streaming"

ThoughtSeen == pc = "streaming" /\ ~thought_found /\ thought_found'

C24_EventsKeptInHistory ==
    [][~logger =>
          /\ PromptSent => Kept(Str(messages))
          /\ ThoughtSeen =>
                 Kept(extract_thought_if_present(Flatten(output_buffer')).content)
          /\ Intercepts => Kept(InterceptedOutput)
          /\ RoundTripEnds => Kept(messages'[Len(messages')].content)
          /\ TurnCompletes => Kept(Flatten(output_buffer)) /\ Kept(returned')]_vars

\* ------------------------------------------------------------------------
\* C25: resume is all-or-nothing: a resume call raises TypeError exactly
\* when a field of the dict it is given is not a list, and then messages
\* and the tool-call records are what they were before the call; a dict
\* with two lists replaces both.
\* ------------------------------------------------------------------------
\* this step is a call of resume
ResumeCalled == root'.resumes = root.resumes + 1

\* both fields of the dict are lists
WellTypedSnapshot(dict) ==
    \A f \in {"messages", "tool_call_records"} : dict[f].type = "list"

SnapshotContents ==
    [messages |-> Contents(saved.dict.messages, messages),
     tool_call_records |-> Contents(saved.dict.tool_call_records, last_tool_calls)]

RECURSIVE Trimmed(_, _)
\* the context once the trimming loop has run
Trimmed(msgs, budget) ==
    IF TrimCondition(msgs, budget) THEN Trimmed(Pop1(msgs), budget) ELSE msgs

\* the context a turn presents to the model when it starts from msgs
NextTurnContext(msgs, u, budget) ==
    Trimmed(IF FirstTurn(msgs)
            THEN Append(msgs, Message("system", build_initial_prompt(u)))
            ELSE Append(msgs, Message("user", <<u>>)),
            budget)

\* the turn in progress is the first since the live context was that of
\* the snapshot
FirstTurnFromSnapshot == saved.held /\ root.direct /\ turn = root.turn + 1

CallSuspended == shared /\ other.pc \in {"streaming", "executing"}

C27_CallsDoNotInterleave ==
    [][(CallSuspended /\ running' = running) =>
           /\ messages' = messages
           /\ last_tool_calls' = last_tool_calls]_vars

\* ------------------------------------------------------------------------
\* C28: two orchestrators running their calls interleaved do not affect
\* each other: no step of one changes anything of the other, the event loop
\* hands each its own lists back, and a call that has returned leaves its
\* orchestrator as a call made alone does: the bootstrap of its own input,
\* two messages per round-trip and the answer in the context, the prompt, one
\* result per round-trip and the answer in the history, and one record per
\* executor call that returned.
\* ------------------------------------------------------------------------
\* the state a first call made alone leaves behind
AsAlone ==
    /\ messages[1] = Message("system", build_initial_prompt(UserScript[turn]))
    /\ \A i \in 1..Len(messages) : messages[i].role # "user"
    /\ conversation_history[1] = Message("system", Str(<<messages[1]>>))
    /\ conversation_history[Len(conversation_history)] =
           Message("assistant", returned)
    /\ messages[Len(messages)] = Message("assistant", returned)
    /\ Len(messages) = 2 + 2 * (Len(conversation_history) - 2)
    /\ \A i \in 2..(Len(conversation_history) - 1) :
           conversation_history[i] = messages[2 * i - 1]
    /\ Len(last_tool_calls) =
           Len(SelectSeq(executor_calls, LAMBDA c : c.outcome = "returned"))

C28_InstancesIndependent ==
    /\ []((~shared /\ pc = "idle" /\ outcome = "returned") => AsAlone)
    /\ [][~shared =>
             IF running' # running
             THEN /\ messages' = other.lists.messages
                  /\ last_tool_calls' = other.lists.last_tool_calls
                  /\ conversation_history' = other.lists.conversation_history
                  /\ other'.lists.messages = messages
                  /\ other'.lists.last_tool_calls = last_tool_calls
                  /\ other'.lists.conversation_history = conversation_history
             ELSE other' = other]_vars

\* the first call has returned after a tool round-trip while the call on the
\* other orchestrator is suspended in the middle of its stream
C28_Witness ==
    /\ ~shared
    /\ running = 1
    /\ pc = "idle"
    /\ outcome = "returned"
    /\ Len(last_tool_calls) = 1
    /\ other.pc = "streaming"
    /\ other.output_buffer # <<>>

\* ------------------------------------------------------------------------
\* C29: the loop has no cap on tool-call iterations: whatever the number of
\* blocks intercepted so far, the step that ends a tool round-trip starts
\* another generation pass on the extended context and does not end the
\* call, and the pass a call ends on has intercepted nothing.
\* ------------------------------------------------------------------------
\* a generation pass starts on a context that ends with a result block
NewPassStarts ==
    /\ pc' = "streaming"
    /\ output_buffer' = <<>>
    /\ ~tool_call_found'
    /\ outcome' = "none"
    /\ IsResultBlock(messages'[Len(messages')].content)

C29_NoIterationCap ==
    [][/\ \A n \in 1..MaxCalls :
              (RoundTripEnds /\ ncalls' = n) => NewPassStarts
       /\ TurnCompletes =>
              /\ ~RoundTripEnds
              /\ ~tool_call_found
              /\ ~Truthy(extract_tool_call_if_present(Flatten(output_buffer)))]_vars

\* the first turn has made as many tool round-trips as the model asks for
\* and the next pass has started
C29_Witness ==
    /\ turn = 1
    /\ ncalls = MaxCalls
    /\ pc = "streaming"
    /\ output_buffer = <<>>
    /\ Len(messages) = 1 + 2 * MaxCalls

\* ------------------------------------------------------------------------
\* C30: the context sent to the model fits the budget: whenever the token
\* generator is called, at the start of a turn and after every tool
\* round-trip, the context counts at most max_tokens_ctx tokens or holds at
\* most two messages.
\* ------------------------------------------------------------------------
\* generate_tokens(context) is called in this step
GeneratorCalled == PromptSent \/ (RoundTripEnds /\ pc' = "streaming")

C30_ContextWithinBudget ==
    [][GeneratorCalled =>
           \/ num_tokens(messages') <= max_tokens_ctx
           \/ Len(messages') <= 2]_vars

\* ------------------------------------------------------------------------
\* C32: when parsing succeeds only through the repair step, repair_json
\* returns the repaired object with method "repaired" and a non-null error,
\* the message of the first, direct attempt (not that of the attempt on the
\* substring); on the "direct" and "extracted" routes the error is null.
\* ------------------------------------------------------------------------
\* parsing succeeds only through the repair step
OnlyRepairSucceeds(text) ==
    /\ ~JsonLoads(text).ok
    /\ HasBracePair(text)
    /\ ~JsonLoads(BraceSubstring(text)).ok
    /\ RepairLoads(BraceSubstring(text)).ok

ThoughtEvents(evs) ==
    SelectSeq(evs, LAMBDA e : e.event_type = "assistant_thought")

\* two thought events are always separated by the prompt of a new pass
OnePerPass(evs) ==
    \A i, j \in DOMAIN evs :
        (/\ i < j
         /\ evs[i].event_type = "assistant_thought"
         /\ evs[j].event_type = "assistant_thought")
            => \E k \in (i + 1)..(j - 1) : evs[k].event_type = "llm_prompt"

\* this step surfaces a thought
ThoughtSurfaced ==
    /\ loop.pc = "streaming"
    /\ Len(ThoughtEvents(loop'.log_events))
           = Len(ThoughtEvents(loop.log_events)) + 1

\* the joined buffer the token of this step was scanned in
LoopCombined ==
    IF loop'.output_buffer # <<>> THEN Flatten(loop'.output_buffer)
    ELSE loop'.context[Len(loop'.context) - 1].content

C31_ThoughtSurfacedOncePerPass ==
    /\ [](OnePerPass(loop.log_events))
    /\ [][/\ ThoughtSurfaced =>
              /\ ~Truthy(extract_thought_if_present(Flatten(loop.output_buffer)))
              /\ ThoughtEvents(loop'.log_events)
                     [Len(ThoughtEvents(loop'.log_events))].content
                     = extract_thought_if_present(LoopCombined).content
              /\ ~Truthy(extract_tool_call_if_present(LoopCombined)) =>
                     /\ loop'.pc = "streaming"
                     /\ pc' = "streaming"
                     /\ Len(loop'.output_buffer) = Len(loop.output_buffer) + 1
                     /\ \/ NextTokens(output_buffer', ncalls') # {}
                        \/ MayEnd(output_buffer', ncalls')
          /\ (RoundTripEnds /\ pc' = "streaming") =>
              /\ loop'.output_buffer = <<>>
              /\ ~loop'.thought_found
              /\ output_buffer' = <<>>
              /\ ~thought_found'
              /\ ThoughtEvents(loop'.log_events) = ThoughtEvents(loop.log_events)
          /\ (thought_found /\ ~thought_found') => output_buffer' = <<>>
          /\ (pc' = "streaming" /\ loop.on) =>
              thought_found' = loop'.thought_found]_vars

\* the first pass surfaced its thought and was interrupted by a tool call;
\* the second pass has consumed a token and nothing was surfaced again
C31_Witness ==
    /\ loop.pc = "streaming"
    /\ Len(loop.handled) = 1
    /\ Len(loop.output_buffer) = 1
    /\ ~loop.thought_found
    /\ Len(ThoughtEvents(loop.log_events)) = 1
    /\ Len(SelectSeq(loop.log_events,
                      LAMBDA e : e.event_type = "llm_prompt")) = 2
    /\ Truthy(extract_thought_if_present(
                  loop.context[Len(loop.context) - 1].content))

\* ------------------------------------------------------------------------
\* C33: the answer a turn returns is the cleaned text of its final pass,
\* the one that intercepted nothing, and of that pass only: the buffer of a
\* pass holds the tokens of that pass alone, the output of every pass that
\* was interrupted by a tool call goes to the context as an assistant
\* message and is dropped from the buffer, and stays in the context when
\* the turn returns.
\* ------------------------------------------------------------------------
\* buffer holds tokens of one generator only
OnePassOnly(buffer, n) ==
    \E st \in StreamsAfter(n) :
        Len(buffer) <= Len(st) /\ SubSeq(st, 1, Len(buffer)) = buffer

\* the assistant messages of the passes that were interrupted in this turn
InterruptedOutputs(msgs) ==
    SelectSeq(TurnPairs(msgs), LAMBDA m : m.role = "assistant")

C33_AnswerFromFinalPassOnly ==
    /\ [](pc = "streaming" =>
              /\ OnePassOnly(output_buffer, ncalls)
              /\ loop.output_buffer = output_buffer)
    /\ [][/\ TurnCompletes =>
              /\ ~Truthy(extract_tool_call_if_present(Flatten(output_buffer)))
              /\ returned' = clean_output(Flatten(output_buffer))
              /\ loop'.returned = returned'
              /\ Len(returned') <= Len(Flatten(output_buffer))
              /\ \A i \in 1..Len(InterruptedOutputs(messages)) :
                     Truthy(extract_tool_call_if_present(
                                InterruptedOutputs(messages)[i].content))
              /\ 2 * Len(InterruptedOutputs(messages)) = Len(TurnPairs(messages))
              /\ SubSeq(messages', 1, Len(messages)) = messages
          /\ RoundTripEnds =>
              /\ messages'[Len(messages') - 1]
                     = Message("assistant", InterceptedOutputOfTrip)
              /\ output_buffer' = <<>>
              /\ loop'.output_buffer = <<>>]_vars

\* a turn has returned after one tool round-trip: the interrupted output is
\* in the context with its block, and the answer is the text of the second
\* pass
C33_Witness ==
    /\ pc = "idle"
    /\ outcome = "returned"
    /\ turn = 1
    /\ Len(messages) = 4
    /\ Contains(messages[2].content, <<"txt", "CO">>)
    /\ returned = <<"txt">>
    /\ messages[4] = Message("assistant", returned)
    /\ loop.returned = returned

\* ------------------------------------------------------------------------
\* C34: a turn that returns after n intercepted tool calls leaves the
\* context 2n + 1 messages longer than it was when generation started,
\* after the trimming of the turn: the context of the logged prompt, then
\* n pairs of an assistant message and the result block injected for it,
\* then one assistant message with the cleaned final answer, the last one.
\* ------------------------------------------------------------------------
\* the event of the prompt of the current turn in conversation_history
LastPrompt(history) ==
    MaxOf({i \in 1..Len(history) :
              history[i].role = "system" /\ ~IsResultBlock(history[i].content)})

\* the result blocks injected since the prompt, one for each intercepted
\* tool call of the turn
InjectedSincePrompt(history) ==
    SubSeq(history, LastPrompt(history) + 1, Len(history))

C34_TurnAddsTwoPerCallPlusOne ==
    [][TurnCompletes =>
          LET injected == InjectedSincePrompt(conversation_history)
              n        == Len(injected)
              prompt   == conversation_history[
                              LastPrompt(conversation_history)].content
          IN  \E k \in 1..Len(messages) :
                  /\ Str(SubSeq(messages, 1, k)) = prompt
                  /\ Len(messages') = k + 2 * n + 1
                  /\ SubSeq(messages', 1, k) = SubSeq(messages, 1, k)
                  /\ \A i \in 1..n :
                         /\ IsResultBlock(injected[i].content)
                         /\ messages'[k + 2 * i - 1].role = "assistant"
                         /\ Truthy(extract_tool_call_if_present(
                                       messages'[k + 2 * i - 1].content))
                         /\ messages'[k + 2 * i]
                                = Message("system", injected[i].content)
                  /\ messages'[Len(messages')] = Message("assistant", returned')
                  /\ returned' = clean_output(Flatten(output_buffer))]_vars

\* the second turn was trimmed to two messages and has returned after one
\* tool round-trip: the context holds 2 + 2 + 1 messages
C34_Witness ==
    /\ pc = "idle"
    /\ outcome = "returned"
    /\ turn = 2
    /\ Len(messages) = 5
    /\ messages[2] = Message("user", <<UserScript[2]>>)
    /\ messages[3].role = "assistant"
    /\ IsResultBlock(messages[4].content)
    /\ messages[5] = Message("assistant", returned)

\* ------------------------------------------------------------------------
\* C35: the trimming at the start of a turn never evicts the input of the
\* turn: while the context is trimmed and when the model is first called,
\* the last message of the context is the one that carries the current
\* user input, the bootstrap message on the first turn and the appended
\* user message afterwards.
\* ------------------------------------------------------------------------
\* the message that carries the input of the call in progress
InputMessage ==
    IF turn = 1 THEN Message("system", build_initial_prompt(user_input))
    ELSE Message("user", <<user_input>>)

C35_InputSurvivesTrimming ==
    /\ [](pc = "trimming" =>
              /\ messages # <<>>
              /\ messages[Len(messages)] = InputMessage
              /\ trim_input[Len(trim_input)] = InputMessage)
    /\ [][PromptSent =>
              /\ messages'[Len(messages')] = InputMessage
              /\ user_input = UserScript[turn]
              /\ Contains(messages'[Len(messages')].content, <<user_input>>)]_vars

\* the second turn is about to call the model on a context that was
\* trimmed down to the bootstrap message and the new user message
C35_Witness ==
    /\ pc = "streaming"
    /\ turn = 2
    /\ output_buffer = <<>>
    /\ ncalls = 0
    /\ Len(messages) = 2
    /\ IsBootstrap(messages[1])
    /\ messages[2] = Message("user", <<UserScript[2]>>)
    /\ num_tokens(messages) > max_tokens_ctx

\* ------------------------------------------------------------------------
\* C36: the events handed to the logger between the start and the return
\* of a turn are the events of the record stored for that turn, all of
\* them and no event of another turn.
\* ------------------------------------------------------------------------
\* the events _log_conversation was called with since the turn started, up
\* to the return: the prompt, the injected result blocks and the answer
EventsOfTurn ==
    SubSeq(conversation_history', LastPrompt(conversation_history),
           Len(conversation_history'))

C36_EventsInOwnRecord ==
    [][(TurnCompletes /\ logger) =>
           complete_traces'[Len(complete_traces')].events = EventsOfTurn]_vars

\* ------------------------------------------------------------------------
\* C37: the tool_calls list of the DetailedResponse returned for a turn
\* holds the tool-call records of that turn, one for each executor call that
\* returned during it, in the order of execution, and no later step on the
\* orchestrator changes what the list holds.
\* ------------------------------------------------------------------------
\* what the caller reads in response.tool_calls
ToolCallsRead(response, live) == Contents(response.tool_calls, live)

\* the list holds the records of the calls that returned in turn t
ListsCallsOfTurn(calls, t) ==
    /\ Len(calls) = Len(ReturnedCallsOfTurn(t))
    /\ \A j \in 1..Len(calls) :
           /\ calls[j].tool = ReturnedCallsOfTurn(t)[j].tool
           /\ calls[j].arguments = ReturnedCallsOfTurn(t)[j].arguments
           /\ calls[j].result \in {<<r>> : r \in ToolResults}

C37_DetailedToolCallsStable ==
    /\ [](\A i \in DOMAIN detailed.responses :
              ListsCallsOfTurn(
                  ToolCallsRead(detailed.responses[i], last_tool_calls),
                  detailed.responses[i].turn))
    /\ [][\A i \in DOMAIN detailed.responses :
              /\ i \in DOMAIN detailed'.responses
              /\ detailed'.responses[i].turn = detailed.responses[i].turn
              /\ detailed'.responses[i].result = detailed.responses[i].result
              /\ ToolCallsRead(detailed'.responses[i], last_tool_calls')
                     = ToolCallsRead(detailed.responses[i], last_tool_calls)]_vars

\* two turns have returned, each after one executed tool call: the first
\* response still lists the call of the first turn, the second response
\* the call of the second
C37_Witness ==
    /\ pc = "idle"
    /\ turn = 2
    /\ Len(detailed.responses) = 2
    /\ detailed.responses[1].turn = 1
    /\ Len(ToolCallsRead(detailed.responses[1], last_tool_calls)) = 1
    /\ ~detailed.responses[1].tool_calls.alias
    /\ detailed.responses[2].tool_calls.alias
    /\ Len(last_tool_calls) = 1
    /\ Len(executor_calls) = 2

\* ------------------------------------------------------------------------
\* C38: generate_and_intercept of utils/streaming.py and the loop of the
\* orchestrator are equivalent: run on the same context, token streams and
\* handler, they call the handler with the same payloads in the same
\* order, append the same messages to the context and return the same
\* cleaned text.
\* ------------------------------------------------------------------------
\* the context as _generate_and_intercept leaves it when it returns in this
\* step: the answer is appended after that, by process_user_input
ContextAtLoopReturn == SubSeq(messages', 1, Len(messages') - 1)

C38_LoopsEquivalent ==
    [][loop.on =>
          /\ Intercepts => loop'.handled = Append(loop.handled, InterceptedPayload)
          /\ (pc \in {"streaming", "executing"} /\ ~Intercepts) =>
                 loop'.handled = loop.handled
          /\ pc' \in {"streaming", "executing"} => loop'.context = messages'
          /\ TurnCompletes =>
                 /\ loop'.returned = returned'
                 /\ loop'.context = ContextAtLoopReturn]_vars

\* ------------------------------------------------------------------------
\* C39: execute_tool_call appends exactly one interaction-trace entry per
\* invocation and attaches each invocation's result or error to its own
\* entry, also when invocations with the same tool name and arguments are
\* in flight on one client and interleave at their awaits.
\* ------------------------------------------------------------------------
\* the entries logged by execute_tool_call
CallEntries ==
    { k \in 1..Len(client.interaction_traces) :
          "tool_call" \in client.interaction_traces[k].keys }

\* the entry of an invocation as the invocation should leave it
OwnEntry(inv) ==
    LET call_log == mcp_tool_call_log(inv.tool_name, inv.arguments)
        logged == <<CallEntry(inv.tool_name, inv.arguments)>>
    IN  IF inv.outcome = "result"
        THEN ResultAttached(logged, call_log, inv.returned)[1]
        ELSE IF inv.outcome = "error"
        THEN ErrorAttached(logged, call_log, inv.tool_name, inv.error)[1]
        ELSE logged[1]

C39_ResultOnOwnEntry ==
    /\ Cardinality(CallEntries) = Len(client.invocations)
    /\ \A i \in 1..Len(client.invocations) :
           /\ client.invocations[i].entry \in CallEntries
           /\ client.interaction_traces[client.invocations[i].entry]
                  = OwnEntry(client.invocations[i])
    /\ \A i, j \in 1..Len(client.invocations) :
           i # j => client.invocations[i].entry # client.invocations[j].entry

====
